---- MODULE Spec2Model ----
(***************************************************************************)
(* A model of triquetra.py: the Fetcher (download_file and its checksum    *)
(* helpers) and the update resolver (main) that drives it.                 *)
(*                                                                         *)
(* Two specifications share the download_file actions:                     *)
(*   SpecDL  - download_file called repeatedly for one artifact under an   *)
(*             arbitrary destination file, remote artifact and sidecar;    *)
(*   Spec    - one run of main(), which calls download_file per artifact.  *)
(***************************************************************************)
EXTENDS Integers, Sequences, FiniteSets, TLC

(* ---------------------------------------------------------------- bounds *)
\* longest artifact, in chunks
MaxChunks == 1

(* ------------------------------------------------------ program constants *)
\* download_file: max_retries = 3
MaxRetries == 3
\* main: baseline_build = "26100.1742"
BaselineMajor == 26100
BaselineMinor == 1742
\* check_and_offer_enablement_package: ep_min_build per branch
EpMinBuild22621 == 2506
EpMinBuild26100 == 5074

(* ------------------------------------------------------------ data values *)
\* the values a chunk of an artifact can take
Chunk == {1, 2}
Contents == UNION {[1..n -> Chunk] : n \in 0..MaxChunks}

\* a digest token: <<hex value, written in upper case>>; NoMd5 is "not set"
NoMd5 == <<>>
NoFile == [exists |-> FALSE, data |-> <<>>]
FileOf(c) == [exists |-> TRUE, data |-> c]
DiskStates == {NoFile} \cup {FileOf(c) : c \in Contents}

RECURSIVE Digest(_)
\* hashlib.md5 over the chunks read, as a small mixing function
Digest(data) ==
    IF data = <<>> THEN 1
    ELSE (Digest(SubSeq(data, 1, Len(data) - 1)) * 2 + data[Len(data)]) % 3

\* file_md5: hexdigest() is lower case
FileMd5(data) == <<Digest(data), FALSE>>

\* str.lower() on a digest token
Lower(tok) == <<tok[1], FALSE>>

\* the '<url>.md5' resource: absent, blank, or one token in either case
Sidecars ==
    {[kind |-> "missing", hex |-> 0, upper |-> FALSE],
     [kind |-> "blank", hex |-> 0, upper |-> FALSE]}
    \cup {[kind |-> "text", hex |-> h, upper |-> u] : h \in 0..2, u \in BOOLEAN}

\* fetch_md5: fetch_text raises on a transport error or a non-success status,
\* split()[0] raises on a blank body; otherwise the first token, lower-cased
FetchMd5(sc, net_ok) ==
    IF net_ok /\ sc.kind = "text"
    THEN [ok |-> TRUE, val |-> Lower(<<sc.hex, sc.upper>>)]
    ELSE [ok |-> FALSE, val |-> NoMd5]

\* download_file line 385, with the comparison inverted
HashMatchesBug(md5_local_v, md5_server_v) ==
    Lower(md5_local_v) # Lower(md5_server_v)

\* download_file line 385: md5_local.lower() == md5_server.lower()
HashMatches(md5_local_v, md5_server_v) ==
    Lower(md5_local_v) = Lower(md5_server_v)

\* the except branch with the countdown dropped: an accepted retry always loops
RetryOutcomeBug(accept, retries_left) ==
    IF ~accept THEN [raise |-> TRUE, left |-> retries_left]
    ELSE [raise |-> FALSE, left |-> retries_left]

\* download_file lines 448-458: decline re-raises; accept decrements
\* max_retries and re-raises once it reaches zero
RetryOutcome(accept, retries_left) ==
    IF ~accept THEN [raise |-> TRUE, left |-> retries_left]
    ELSE IF retries_left - 1 <= 0
         THEN [raise |-> TRUE, left |-> retries_left - 1]
         ELSE [raise |-> FALSE, left |-> retries_left - 1]

(* ------------------------------------------------------------------ state *)
VARIABLES
    \* download_file
    dl_pc,          \* position in download_file
    url,            \* the artifact being downloaded ("" outside a call)
    disk,           \* the file at dest_path
    remote,         \* the artifact's content on the server
    sidecar,        \* the '<url>.md5' resource on the server
    max_retries,    \* download_file's countdown
    gets,           \* GETs issued for the artifact in this call
    wrote,          \* dest_path opened for writing in this call
    swallowed,      \* verification errors swallowed in this call
    declined,       \* the operator declined a retry in this call
    prev,           \* how the previous call ended and whether the server changed since
    env_changed     \* the server's artifact or sidecar changed since the last call began

dlvars == <<dl_pc, url, disk, remote, sidecar, max_retries, gets, wrote,
            swallowed, declined, prev, env_changed>>

VARIABLES
    \* main
    pc,             \* position in main
    build,          \* args.build (<<>> when absent)
    dry_run,        \* args.dry_run
    local_parts,    \* the local version
    folders,        \* parse_h5ai_index_for_folders's result
    same_branch,    \* main's same_branch list
    complete_builds,\* main's complete_builds list
    probed,         \* builds whose non_complete marker was probed (in order)
    markers,        \* what each of those probes answered (TRUE: marker present)
    best,           \* the selected build (<<>> when none)
    cmpres,         \* compare_version_lists(best_parts, local_parts)
    files,          \* parse_h5ai_files's result for the target folder
    dl_ret,         \* where main continues after download_file returns
    ep_ret,         \* where main continues after the enablement-package check
    exit_code,      \* the process exit status (-1 while running)
    exit_reason,    \* which exit path was taken
    downloads,      \* artifacts download_file was called for, in order
    completed,      \* artifacts whose download_file call returned, in order
    installs,       \* <<artifact, exit code>> of each installer invocation, in order
    prompts         \* operator prompts asked so far, with the answers

mainvars == <<pc, build, dry_run, local_parts, folders, same_branch,
              complete_builds, probed, markers, best, cmpres, files, dl_ret, ep_ret,
              exit_code, exit_reason, downloads, completed, installs, prompts>>

VARIABLES
    \* choose_fastest_mirror / try_mirrors
    m_pc,           \* position in the mirror-selection function
    m_fn,           \* which of the two functions is running
    mirrors,        \* the candidate list
    probe,          \* what each candidate's probe meets
    results,        \* choose_fastest_mirror's results list of (speed, base)
    speed_bound,    \* whether the local speed_mbs has been assigned
    m_i,            \* try_mirrors: candidates tried so far
    m_ret           \* the base URL returned ("" when none)

mirvars == <<m_pc, m_fn, mirrors, probe, results, speed_bound, m_i, m_ret>>

VARIABLES
    \* compare_version_lists
    c_pc,           \* "call" before, "returned" after
    c_a,            \* argument a
    c_b,            \* argument b
    c_res           \* the value returned

cmpvars == <<c_pc, c_a, c_b, c_res>>

VARIABLES
    \* normalize_local_to_short
    p_pc,           \* "call" before, "returned" after
    full_ver,       \* the argument, a sequence of characters
    short_str,      \* the first element of the tuple returned
    short_parts     \* the second element of the tuple returned

parsevars == <<p_pc, full_ver, short_str, short_parts>>

VARIABLES
    \* remote_file_exists
    e_outcomes,     \* what the HEAD request of each probe meets
    e_answers       \* what each call made so far returned

existsvars == <<e_outcomes, e_answers>>

VARIABLES
    \* parse_h5ai_index_for_folders
    i_pc,           \* "idle", "call" or "returned"
    i_anchors,      \* the a elements of html_text that carry an href, in document order
    i_folders       \* the list returned

idxvars == <<i_pc, i_anchors, i_folders>>

VARIABLES
    \* parse_h5ai_files
    f_pc,           \* "idle", "call" or "returned"
    f_hrefs,        \* the href of each a element of html_text, in document order
    f_files         \* the list returned

filevars == <<f_pc, f_hrefs, f_files>>

VARIABLES
    \* choose_fastest_mirror and its spinner thread
    t_main,         \* where the probing thread is in choose_fastest_mirror
    t_spin,         \* where the spinner thread is in spinner_func
    spinner_running,\* the flag both threads share
    t_outcomes,     \* whether each mirror answers its probe
    t_results,      \* the results list, one flag per probe made
    t_console       \* who wrote to the console last

spinvars == <<t_main, t_spin, spinner_running, t_outcomes, t_results, t_console>>

auxvars == <<mirvars, cmpvars, parsevars, existsvars, idxvars, filevars, spinvars>>

vars == <<dlvars, mainvars, auxvars>>

\* no mirror-selection call in progress
MirIdle ==
    /\ m_pc = "idle"
    /\ m_fn = ""
    /\ mirrors = <<>>
    /\ probe = <<>>
    /\ results = <<>>
    /\ speed_bound = FALSE
    /\ m_i = 0
    /\ m_ret = ""

\* no compare_version_lists call in progress
CmpIdle ==
    /\ c_pc = "idle"
    /\ c_a = <<>>
    /\ c_b = <<>>
    /\ c_res = 0

\* no normalize_local_to_short call in progress
ParseIdle ==
    /\ p_pc = "idle"
    /\ full_ver = <<>>
    /\ short_str = <<>>
    /\ short_parts = <<>>

\* no remote_file_exists call made
ExistsIdle ==
    /\ e_outcomes = <<>>
    /\ e_answers = <<>>

\* no parse_h5ai_index_for_folders call in progress
IndexIdle ==
    /\ i_pc = "idle"
    /\ i_anchors = <<>>
    /\ i_folders = <<>>

\* no parse_h5ai_files call in progress
FilesIdle ==
    /\ f_pc = "idle"
    /\ f_hrefs = <<>>
    /\ f_files = <<>>

\* no spinner thread started
SpinIdle ==
    /\ t_main = "idle"
    /\ t_spin = "idle"
    /\ spinner_running = FALSE
    /\ t_outcomes = <<>>
    /\ t_results = <<>>
    /\ t_console = "none"

AuxIdle ==
    /\ MirIdle
    /\ CmpIdle
    /\ ParseIdle
    /\ ExistsIdle
    /\ IndexIdle
    /\ FilesIdle
    /\ SpinIdle

(* -------------------------------------------------------- download_file *)
DlEnded == dl_pc \in {"returned", "raised"}

\* download_file lines 371-374: a call starts with a fresh countdown
DlEnter(u) ==
    /\ dl_pc' = "loop"
    /\ url' = u
    /\ max_retries' = MaxRetries
    /\ gets' = 0
    /\ wrote' = FALSE
    /\ swallowed' = 0
    /\ declined' = FALSE
    /\ prev' = [result |-> dl_pc, changed |-> env_changed]
    /\ env_changed' = FALSE

\* a verification that takes an error for "the file is good"
VerifyLocalTrusting(sc, data, net_ok, hash_ok) ==
    LET f == FetchMd5(sc, net_ok) IN
    IF ~f.ok \/ ~hash_ok
    THEN [need_download |-> FALSE, error |-> TRUE]
    ELSE [need_download |-> ~HashMatches(FileMd5(data), f.val), error |-> FALSE]

\* lines 378-389 for an existing dest_path: need_download stays True unless
\* the sidecar is fetched, the file is hashed and the two digests agree; any
\* exception on the way is swallowed
VerifyLocal(sc, data, net_ok, hash_ok) ==
    LET f == FetchMd5(sc, net_ok) IN
    IF ~f.ok \/ ~hash_ok
    THEN [need_download |-> TRUE, error |-> TRUE]
    ELSE [need_download |-> ~HashMatches(FileMd5(data), f.val), error |-> FALSE]

\* lines 376-381 when dest_path does not exist: straight to the transfer
DlNoLocalFile ==
    /\ dl_pc = "loop"
    /\ ~disk.exists
    /\ dl_pc' = "get"
    /\ UNCHANGED <<url, disk, remote, sidecar, max_retries, gets, wrote,
                   swallowed, declined, prev, env_changed>>
    /\ UNCHANGED mainvars
    /\ UNCHANGED auxvars

\* lines 381-392: dest_path exists; verify it against the sidecar and return
\* dest_path when no download is needed
DlVerify ==
    /\ dl_pc = "loop"
    /\ disk.exists
    /\ \E net_ok \in BOOLEAN, hash_ok \in BOOLEAN :
         LET v == VerifyLocal(sidecar, disk.data, net_ok, hash_ok) IN
         /\ swallowed' = IF v.error THEN swallowed + 1 ELSE swallowed
         /\ dl_pc' = IF v.need_download THEN "get" ELSE "returned"
    /\ UNCHANGED <<url, disk, remote, sidecar, max_retries, gets, wrote,
                   declined, prev, env_changed>>
    /\ UNCHANGED mainvars
    /\ UNCHANGED auxvars

\* lines 394-406: GET the artifact; a transport error or a non-success status
\* raises before the file is opened, success opens dest_path with "wb"
DlGet ==
    /\ dl_pc = "get"
    /\ gets' = gets + 1
    /\ \E ok \in BOOLEAN :
         IF ok
         THEN /\ disk' = FileOf(<<>>)
              /\ wrote' = TRUE
              /\ dl_pc' = "stream"
         ELSE /\ disk' = disk
              /\ wrote' = wrote
              /\ dl_pc' = "handler"
    /\ UNCHANGED <<url, remote, sidecar, max_retries, swallowed, declined,
                   prev, env_changed>>
    /\ UNCHANGED mainvars
    /\ UNCHANGED auxvars

\* lines 407-434: one chunk is written, or the transport fails mid-stream and
\* the partial file stays behind
DlChunk ==
    /\ dl_pc = "stream"
    /\ Len(disk.data) < Len(remote)
    /\ \E ok \in BOOLEAN :
         IF ok
         THEN /\ disk' = FileOf(Append(disk.data, remote[Len(disk.data) + 1]))
              /\ dl_pc' = "stream"
         ELSE /\ disk' = disk
              /\ dl_pc' = "handler"
    /\ UNCHANGED <<url, remote, sidecar, max_retries, gets, wrote, swallowed,
                   declined, prev, env_changed>>
    /\ UNCHANGED mainvars
    /\ UNCHANGED auxvars

\* lines 436-440: the stream is exhausted; return dest_path
DlFinish ==
    /\ dl_pc = "stream"
    /\ Len(disk.data) = Len(remote)
    /\ dl_pc' = "returned"
    /\ UNCHANGED <<url, disk, remote, sidecar, max_retries, gets, wrote,
                   swallowed, declined, prev, env_changed>>
    /\ UNCHANGED mainvars
    /\ UNCHANGED auxvars

\* lines 442-458: the except branch; the operator is asked whether to retry
DlHandler ==
    /\ dl_pc = "handler"
    /\ \E accept \in BOOLEAN :
         LET r == RetryOutcome(accept, max_retries) IN
         /\ max_retries' = r.left
         /\ declined' = (declined \/ ~accept)
         /\ dl_pc' = IF r.raise THEN "raised" ELSE "loop"
    /\ UNCHANGED <<url, disk, remote, sidecar, gets, wrote, swallowed, prev,
                   env_changed>>
    /\ UNCHANGED mainvars
    /\ UNCHANGED auxvars

DlStep ==
    \/ DlNoLocalFile
    \/ DlVerify
    \/ DlGet
    \/ DlChunk
    \/ DlFinish
    \/ DlHandler

(* ------------------------------------------ SpecDL: the Fetcher on its own *)
MainIdle ==
    /\ pc = "fetcher"
    /\ build = <<>>
    /\ dry_run = FALSE
    /\ local_parts = <<>>
    /\ folders = <<>>
    /\ same_branch = <<>>
    /\ complete_builds = <<>>
    /\ probed = <<>>
    /\ markers = <<>>
    /\ best = <<>>
    /\ cmpres = 0
    /\ files = <<>>
    /\ dl_ret = ""
    /\ ep_ret = ""
    /\ exit_code = -1
    /\ exit_reason = ""
    /\ downloads = <<>>
    /\ completed = <<>>
    /\ installs = <<>>
    /\ prompts = {}

DlIdle ==
    /\ dl_pc = "idle"
    /\ url = ""
    /\ max_retries = MaxRetries
    /\ gets = 0
    /\ wrote = FALSE
    /\ swallowed = 0
    /\ declined = FALSE
    /\ prev = [result |-> "idle", changed |-> FALSE]
    /\ env_changed = FALSE

InitDL ==
    /\ MainIdle
    /\ DlIdle
    /\ disk \in DiskStates
    /\ remote \in Contents
    /\ sidecar \in Sidecars
    /\ AuxIdle

\* a caller invokes download_file for the artifact; the destination file is
\* whatever the previous call left
DLCall ==
    /\ pc = "fetcher"
    /\ dl_pc \in {"idle", "returned", "raised"}
    /\ DlEnter("artifact")
    /\ UNCHANGED <<disk, remote, sidecar>>
    /\ UNCHANGED mainvars
    /\ UNCHANGED auxvars

\* between two calls the server replaces the artifact or its sidecar
EnvChange ==
    /\ pc = "fetcher"
    /\ DlEnded
    /\ ~env_changed
    /\ remote' \in Contents
    /\ sidecar' \in Sidecars
    /\ <<remote', sidecar'>> # <<remote, sidecar>>
    /\ env_changed' = TRUE
    /\ UNCHANGED <<dl_pc, url, disk, max_retries, gets, wrote, swallowed,
                   declined, prev>>
    /\ UNCHANGED mainvars
    /\ UNCHANGED auxvars

NextDL ==
    \/ DLCall
    \/ EnvChange
    \/ DlNoLocalFile
    \/ DlVerify
    \/ DlGet
    \/ DlChunk
    \/ DlFinish
    \/ DlHandler

SpecDL == InitDL /\ [][NextDL]_vars

\* download_file is sequential code: every step it is at is eventually taken
\* (each network call carries a timeout, the operator answers the prompt)
FairSpecDL == InitDL /\ [][NextDL]_vars /\ WF_vars(DlStep)

(* --------------------------------------------------- version comparison *)
Elem(a, i) == IF i <= Len(a) THEN a[i] ELSE 0

MaxOf(x, y) == IF x >= y THEN x ELSE y

RECURSIVE CmpFrom(_, _, _)
CmpFrom(a, b, i) ==
    IF i > MaxOf(Len(a), Len(b)) THEN 0
    ELSE IF Elem(a, i) > Elem(b, i) THEN 1
    ELSE IF Elem(a, i) < Elem(b, i) THEN -1
    ELSE CmpFrom(a, b, i + 1)

\* a comparison without padding: a proper prefix is the smaller list
CompareNoPadding(a, b) ==
    LET n == IF Len(a) <= Len(b) THEN Len(a) ELSE Len(b)
        d == {i \in 1..n : a[i] # b[i]}
    IN  IF d # {}
        THEN LET k == CHOOSE i \in d : \A j \in d : i <= j
             IN  IF a[k] > b[k] THEN 1 ELSE -1
        ELSE IF Len(a) > Len(b) THEN 1
        ELSE IF Len(a) < Len(b) THEN -1
        ELSE 0

\* compare_version_lists: the shorter list is padded with zeros
CompareVersionLists(a, b) == CmpFrom(a, b, 1)

\* Python's ordering of two lists of ints (the key of max() in main): the
\* first differing position decides, and a proper prefix is smaller
ListLess(a, b) ==
    \/ \E i \in 1..Len(a) :
         /\ i <= Len(b)
         /\ a[i] < b[i]
         /\ \A j \in 1..(i - 1) : a[j] = b[j]
    \/ /\ Len(a) < Len(b)
       /\ \A j \in 1..Len(a) : a[j] = b[j]

InSeq(x, sq) == \E i \in 1..Len(sq) : sq[i] = x

(* ------------------------------------------------------- resolver inputs *)
\* a build folder's short name "major.minor", kept as the pair of its numbers
BuildUniverse == {<<22621, 1>>, <<26100, 1742>>, <<26100, 6130>>}

\* versions the registry can report (BuildLab major and UBR)
LocalVersions == {<<22621, 1>>, <<26100, 1500>>, <<26100, 2000>>, <<26100, 6130>>}

\* --build values; <<>> is "not given"
Overrides == {<<>>, <<26100, 1742>>, <<26100, 6130>>}

Baseline == <<BaselineMajor, BaselineMinor>>

\* int(f.split(".")[0])
Major(f) == f[1]

RECURSIVE SortBuilds(_)
\* folders.sort(key=tuple of ints): ascending by (major, minor)
SortBuilds(S) ==
    IF S = {} THEN <<>>
    ELSE LET m == CHOOSE x \in S : \A y \in S : ~ListLess(y, x)
         IN <<m>> \o SortBuilds(S \ {m})

\* the folder lists parse_h5ai_index_for_folders can return
FolderLists == {SortBuilds(S) : S \in SUBSET BuildUniverse}

\* the branch filter keeping every build but the local branch's
SameBranchOfBug(fs, local_major) ==
    SelectSeq(fs, LAMBDA f : Major(f) # local_major)

\* main line 833: the folders of the local major, in index order
SameBranchOf(fs, local_major) ==
    SelectSeq(fs, LAMBDA f : Major(f) = local_major)

\* max() replaced by min()
MaxBuildBug(sq) ==
    sq[CHOOSE i \in 1..Len(sq) :
         /\ \A j \in 1..Len(sq) : ~ListLess(sq[j], sq[i])
         /\ \A j \in 1..(i - 1) : ListLess(sq[i], sq[j])]

\* main line 892: max(same_branch, key=list of ints), the first maximal element
MaxBuild(sq) ==
    sq[CHOOSE i \in 1..Len(sq) :
         /\ \A j \in 1..Len(sq) : ~ListLess(sq[i], sq[j])
         /\ \A j \in 1..(i - 1) : ListLess(sq[j], sq[i])]

\* main line 881: the baseline rule applies
BaselineApplies(lp) ==
    /\ lp[1] = BaselineMajor
    /\ Len(lp) > 1
    /\ lp[2] < BaselineMinor

Picked(b) == [best |-> b, reason |-> ""]
Failed(r) == [best |-> <<>>, reason |-> r]

\* target selection without the baseline rule
SelectTargetNoBaseline(ov, fs, sb, lp) ==
    IF ov # <<>>
    THEN IF InSeq(ov, sb) THEN Picked(ov)
         ELSE IF InSeq(ov, fs) THEN Failed("BuildUnavailable")
         ELSE Failed("BuildNotFound")
    ELSE Picked(MaxBuild(sb))

\* target selection accepting an override from the raw folder list
SelectTargetRawOverride(ov, fs, sb, lp) ==
    IF ov # <<>>
    THEN IF InSeq(ov, fs) THEN Picked(ov)
         ELSE Failed("BuildNotFound")
    ELSE IF BaselineApplies(lp)
    THEN IF InSeq(Baseline, sb) THEN Picked(Baseline)
         ELSE Failed("RequiredBaselineMissing")
    ELSE Picked(MaxBuild(sb))

\* target selection taking the latest build of the raw folder list
SelectTargetAnyFolder(ov, fs, sb, lp) ==
    IF ov # <<>>
    THEN IF InSeq(ov, sb) THEN Picked(ov)
         ELSE IF InSeq(ov, fs) THEN Failed("BuildUnavailable")
         ELSE Failed("BuildNotFound")
    ELSE IF BaselineApplies(lp)
    THEN IF InSeq(Baseline, sb) THEN Picked(Baseline)
         ELSE Failed("RequiredBaselineMissing")
    ELSE Picked(MaxBuild(fs))

\* target selection falling back to the latest build when the baseline is
\* not available
SelectTargetFallsBack(ov, fs, sb, lp) ==
    IF ov # <<>>
    THEN IF InSeq(ov, sb) THEN Picked(ov)
         ELSE IF InSeq(ov, fs) THEN Failed("BuildUnavailable")
         ELSE Failed("BuildNotFound")
    ELSE IF BaselineApplies(lp) /\ InSeq(Baseline, sb) THEN Picked(Baseline)
    ELSE Picked(MaxBuild(sb))

\* main lines 857-893: override, then the baseline rule, then the latest build
SelectTarget(ov, fs, sb, lp) ==
    IF ov # <<>>
    THEN IF InSeq(ov, sb) THEN Picked(ov)
         ELSE IF InSeq(ov, fs) THEN Failed("BuildUnavailable")
         ELSE Failed("BuildNotFound")
    ELSE IF BaselineApplies(lp)
    THEN IF InSeq(Baseline, sb) THEN Picked(Baseline)
         ELSE Failed("RequiredBaselineMissing")
    ELSE Picked(MaxBuild(sb))

\* a declined reinstall going on to the download confirmation all the same
ReinstallRouteBug(ans) == "confirm"

\* main lines 900-907: a declined reinstall goes to the enablement-package
\* check and then exits; an accepted one goes on to the download confirmation
ReinstallRoute(ans) == IF ans THEN "confirm" ELSE "ep"

\* the version gate ignoring "remote older than local"
VersionGateNoOlderExit(c, ov) ==
    IF c = 0 /\ ov = <<>> THEN "ask_reinstall" ELSE "proceed"

\* the version gate applied to an override too
VersionGateOnOverride(c, ov) ==
    IF c = 0 THEN "ask_reinstall"
    ELSE IF c < 0 THEN "exit_older"
    ELSE "proceed"

\* main lines 899-911: what the version comparison leads to
VersionGate(c, ov) ==
    IF c = 0 /\ ov = <<>> THEN "ask_reinstall"
    ELSE IF c < 0 /\ ov = <<>> THEN "exit_older"
    ELSE "proceed"

\* file names of a target folder, in sorted() order
FileOrder == <<"KB5043080.msu", "NDP481-KB5042098.cab", "SSU-26100.1738.cab",
               "windows11.0-kb5043080.esd">>

\* the lists parse_h5ai_files can return
FileLists == {SelectSeq(FileOrder, LAMBDA f : f \in S) :
                S \in SUBSET {FileOrder[i] : i \in 1..Len(FileOrder)}}

\* main lines 955-960, the four patterns on these names
IsCab(f) == f = "SSU-26100.1738.cab"
IsEsd(f) == f = "windows11.0-kb5043080.esd"
IsMsu(f) == f = "KB5043080.msu"
IsNdp(f) == f = "NDP481-KB5042098.cab"

\* main lines 962-965: candidates[0] if candidates else None ("" here)
FirstMatch(fl, kind) ==
    LET P(f) == CASE kind = "cab" -> IsCab(f)
                  [] kind = "esd" -> IsEsd(f)
                  [] kind = "msu" -> IsMsu(f)
                  [] OTHER        -> IsNdp(f)
        c == SelectSeq(fl, P)
    IN  IF c = <<>> THEN "" ELSE c[1]

\* a classification making the stack+cumulative check before looking for an MSU
ClassifyPairFirst(fl) ==
    IF FirstMatch(fl, "cab") = "" \/ FirstMatch(fl, "esd") = "" THEN "incomplete"
    ELSE IF FirstMatch(fl, "msu") # "" THEN "standalone"
    ELSE "stack_cumulative"

\* main lines 971 and 1009-1013: an MSU takes the standalone path; otherwise
\* both a CAB and an ESD are needed
Classify(fl) ==
    IF FirstMatch(fl, "msu") # "" THEN "standalone"
    ELSE IF FirstMatch(fl, "cab") = "" \/ FirstMatch(fl, "esd") = "" THEN "incomplete"
    ELSE "stack_cumulative"

SelectedCab == FirstMatch(files, "cab")
SelectedEsd == FirstMatch(files, "esd")
SelectedMsu == FirstMatch(files, "msu")
SelectedNdp == FirstMatch(files, "ndp")

\* values of the DisplayVersion registry value ("" when it cannot be read)
DisplayVersions == {"", "22H2", "24H2", "25H2"}

\* check_and_offer_enablement_package lines 675-693
OfferEp(display_version, local_major, lp) ==
    /\ display_version # ""
    /\ \/ /\ local_major = 22621
          /\ display_version = "22H2"
          /\ Len(lp) > 1
          /\ lp[2] >= EpMinBuild22621
       \/ /\ local_major = 26100
          /\ display_version = "24H2"
          /\ Len(lp) > 1
          /\ lp[2] >= EpMinBuild26100

\* the artifact a run downloads, as a full-length content
RunContent == [i \in 1..MaxChunks |-> 1]

\* what a download_file call of a run can meet: no destination file or a
\* complete earlier download; a sidecar publishing the artifact's digest, or
\* none (a truncated file is what a failed attempt of the call leaves behind)
RunEnv ==
    [disk : {NoFile, FileOf(RunContent)},
     remote : {RunContent},
     sidecar : {[kind |-> "missing", hex |-> 0, upper |-> FALSE],
                [kind |-> "text", hex |-> Digest(RunContent), upper |-> FALSE]}]

(* ------------------------------------------------------------------ main *)
Go(p) == pc' = p /\ UNCHANGED <<exit_code, exit_reason>>

\* sys.exit(code) after the log line naming the reason
Exit(code, reason) ==
    /\ pc' = "done"
    /\ exit_code' = code
    /\ exit_reason' = reason

Asked(name, ans) == prompts' = prompts \cup {<<name, ans>>}

\* the placeholders of the Fetcher's view outside a download_file call
DlRelease ==
    /\ dl_pc' = "idle"
    /\ url' = ""
    /\ disk' = NoFile
    /\ remote' = <<>>
    /\ sidecar' = [kind |-> "missing", hex |-> 0, upper |-> FALSE]
    /\ max_retries' = MaxRetries
    /\ gets' = 0
    /\ wrote' = FALSE
    /\ swallowed' = 0
    /\ declined' = FALSE
    /\ UNCHANGED <<prev, env_changed>>

\* main calls download_file(u, tmpdir, auth) and continues at ret
CallDownload(u, ret) ==
    /\ DlEnter(u)
    /\ \E e \in RunEnv :
         /\ disk' = e.disk
         /\ remote' = e.remote
         /\ sidecar' = e.sidecar
    /\ downloads' = Append(downloads, u)
    /\ completed' = completed
    /\ dl_ret' = ret
    /\ Go("in_download")

InitMain ==
    /\ pc = "prompt_check"
    /\ build \in Overrides
    /\ dry_run \in BOOLEAN
    /\ local_parts = <<>>
    /\ folders = <<>>
    /\ same_branch = <<>>
    /\ complete_builds = <<>>
    /\ probed = <<>>
    /\ markers = <<>>
    /\ best = <<>>
    /\ cmpres = 0
    /\ files = <<>>
    /\ dl_ret = ""
    /\ ep_ret = ""
    /\ exit_code = -1
    /\ exit_reason = ""
    /\ downloads = <<>>
    /\ completed = <<>>
    /\ installs = <<>>
    /\ prompts = {}

Init ==
    /\ InitMain
    /\ DlIdle
    /\ disk = NoFile
    /\ remote = <<>>
    /\ sidecar = [kind |-> "missing", hex |-> 0, upper |-> FALSE]
    /\ AuxIdle

\* lines 769-773: "Proceed with checking for updates?"
PromptCheck ==
    /\ pc = "prompt_check"
    /\ \E ans \in BOOLEAN :
         /\ Asked("check", ans)
         /\ IF ans THEN Go("read_local") ELSE Exit(0, "CheckDeclined")
    /\ UNCHANGED <<build, dry_run, local_parts, folders, same_branch,
                   complete_builds, probed, markers, best, cmpres, files, dl_ret,
                   ep_ret, downloads, completed, installs>>
    /\ UNCHANGED dlvars
    /\ UNCHANGED auxvars

\* lines 775-782: the local version from the registry, or none
ReadLocalVersion ==
    /\ pc = "read_local"
    /\ \/ /\ local_parts' \in LocalVersions
          /\ Go("mirror")
       \/ /\ local_parts' = local_parts
          /\ Exit(1, "NoLocalVersion")
    /\ UNCHANGED <<build, dry_run, folders, same_branch, complete_builds,
                   probed, markers, best, cmpres, files, dl_ret, ep_ret, downloads, completed,
                   installs, prompts>>
    /\ UNCHANGED dlvars
    /\ UNCHANGED auxvars

\* lines 784-794: the failsafe base URL, or choose_fastest_mirror, which
\* returns a base URL or ends the run with status 1 (its logged exit or its
\* uncaught exception; SpecMirror follows the function step by step)
SelectMirror ==
    /\ pc = "mirror"
    /\ \/ Go("fetch_index")
       \/ Exit(1, "NoReachableMirror")
    /\ UNCHANGED <<build, dry_run, local_parts, folders, same_branch,
                   complete_builds, probed, markers, best, cmpres, files, dl_ret,
                   ep_ret, downloads, completed, installs, prompts>>
    /\ UNCHANGED dlvars
    /\ UNCHANGED auxvars

\* an index step that goes on with whatever list was parsed
FetchIndexGoesOn ==
    /\ pc = "fetch_index"
    /\ \/ /\ folders' = folders
          /\ Exit(1, "IndexFetchFailed")
       \/ /\ folders' \in FolderLists
          /\ Go("branch_filter")
    /\ UNCHANGED <<build, dry_run, local_parts, same_branch, complete_builds,
                   probed, markers, best, cmpres, files, dl_ret, ep_ret, downloads, completed,
                   installs, prompts>>
    /\ UNCHANGED dlvars
    /\ UNCHANGED auxvars

\* lines 796-817: fetch the index page and parse the build folders
FetchIndex ==
    /\ pc = "fetch_index"
    /\ \/ /\ folders' = folders
          /\ Exit(1, "IndexFetchFailed")
       \/ /\ folders' \in FolderLists
          /\ IF folders' = <<>> THEN Exit(1, "NoBuildFolders")
             ELSE Go("branch_filter")
    /\ UNCHANGED <<build, dry_run, local_parts, same_branch, complete_builds,
                   probed, markers, best, cmpres, files, dl_ret, ep_ret, downloads, completed,
                   installs, prompts>>
    /\ UNCHANGED dlvars
    /\ UNCHANGED auxvars

\* lines 821-837: restrict to the local major; none left is fatal
BranchFilter ==
    /\ pc = "branch_filter"
    /\ same_branch' = SameBranchOf(folders, local_parts[1])
    /\ IF same_branch' = <<>> THEN Exit(1, "NoBuildsInBranch")
       ELSE Go("probe")
    /\ UNCHANGED <<build, dry_run, local_parts, folders, complete_builds,
                   probed, markers, best, cmpres, files, dl_ret, ep_ret, downloads, completed,
                   installs, prompts>>
    /\ UNCHANGED dlvars
    /\ UNCHANGED auxvars

\* the completeness loop keeping every build, marked or not
RetainAll(cb, f, marker) == Append(cb, f)

\* lines 844-847: a build whose marker exists is skipped, any other appended
Retain(cb, f, marker) == IF marker THEN cb ELSE Append(cb, f)

\* lines 841-847: one iteration of the completeness loop; remote_file_exists
\* answers True or False for the build's non_complete marker
ProbeMarker ==
    /\ pc = "probe"
    /\ Len(probed) < Len(same_branch)
    /\ LET f == same_branch[Len(probed) + 1] IN
       /\ probed' = Append(probed, f)
       /\ \E marker \in BOOLEAN :
            /\ markers' = Append(markers, marker)
            /\ complete_builds' = Retain(complete_builds, f, marker)
    /\ Go("probe")
    /\ UNCHANGED <<build, dry_run, local_parts, folders, same_branch, best,
                   cmpres, files, dl_ret, ep_ret, downloads, completed, installs, prompts>>
    /\ UNCHANGED dlvars
    /\ UNCHANGED auxvars

\* lines 849-854: no complete build ends the run with status 0
CompletenessCheck ==
    /\ pc = "probe"
    /\ Len(probed) = Len(same_branch)
    /\ IF complete_builds = <<>>
       THEN /\ Exit(0, "MidUpload")
            /\ same_branch' = same_branch
       ELSE /\ Go("select")
            /\ same_branch' = complete_builds
    /\ UNCHANGED <<build, dry_run, local_parts, folders, complete_builds,
                   probed, markers, best, cmpres, files, dl_ret, ep_ret, downloads, completed,
                   installs, prompts>>
    /\ UNCHANGED dlvars
    /\ UNCHANGED auxvars

\* lines 856-895: determine the target build
SelectBuild ==
    /\ pc = "select"
    /\ LET t == SelectTarget(build, folders, same_branch, local_parts) IN
       /\ best' = t.best
       /\ IF t.reason # "" THEN Exit(1, t.reason) ELSE Go("compare")
    /\ UNCHANGED <<build, dry_run, local_parts, folders, same_branch,
                   complete_builds, probed, markers, cmpres, files, dl_ret, ep_ret,
                   downloads, completed, installs, prompts>>
    /\ UNCHANGED dlvars
    /\ UNCHANGED auxvars

\* lines 897-911: compare with the local version; equal asks to reinstall,
\* older ends the run, an override skips both
VersionCompare ==
    /\ pc = "compare"
    /\ cmpres' = CompareVersionLists(best, local_parts)
    /\ LET g == VersionGate(cmpres', build) IN
       \/ /\ g = "ask_reinstall"
          /\ \E ans \in BOOLEAN :
               /\ Asked("reinstall", ans)
               /\ Go(ReinstallRoute(ans))
               /\ ep_ret' = IF ans THEN ep_ret ELSE "exit0"
       \/ /\ g = "exit_older"
          /\ Exit(0, "LocalNewer")
          /\ UNCHANGED <<prompts, ep_ret>>
       \/ /\ g = "proceed"
          /\ Go("confirm")
          /\ UNCHANGED <<prompts, ep_ret>>
    /\ UNCHANGED <<build, dry_run, local_parts, folders, same_branch,
                   complete_builds, probed, markers, best, files, dl_ret, downloads, completed,
                   installs>>
    /\ UNCHANGED dlvars
    /\ UNCHANGED auxvars

\* lines 914-921: "Do you want to download <best> updates?"
ConfirmDownload ==
    /\ pc = "confirm"
    /\ \E ans \in BOOLEAN :
         /\ Asked("download", ans)
         /\ IF ans THEN Go("list_files") ELSE Exit(0, "DownloadDeclined")
    /\ UNCHANGED <<build, dry_run, local_parts, folders, same_branch,
                   complete_builds, probed, markers, best, cmpres, files, dl_ret,
                   ep_ret, downloads, completed, installs>>
    /\ UNCHANGED dlvars
    /\ UNCHANGED auxvars

\* lines 939-968 and 971, 1010-1013: list the target folder and classify its
\* files; an .msu takes the standalone path, else both CAB and ESD are needed
ListFiles ==
    /\ pc = "list_files"
    /\ \/ /\ files' = files
          /\ Exit(1, "FolderFetchFailed")
       \/ /\ files' \in FileLists
          /\ IF files' = <<>> THEN Exit(1, "NoFiles")
             ELSE IF Classify(files') = "standalone" THEN Go("dl_msu")
             ELSE IF Classify(files') = "incomplete"
             THEN Exit(1, "IncompleteArtifactSet")
             ELSE Go("dl_cab")
    /\ UNCHANGED <<build, dry_run, local_parts, folders, same_branch,
                   complete_builds, probed, markers, best, cmpres, dl_ret, ep_ret,
                   downloads, completed, installs, prompts>>
    /\ UNCHANGED dlvars
    /\ UNCHANGED auxvars

\* lines 975-979: download the MSU
DownloadMsu ==
    /\ pc = "dl_msu"
    /\ CallDownload("msu", "dl_msu_ndp")
    /\ UNCHANGED <<build, dry_run, local_parts, folders, same_branch,
                   complete_builds, probed, markers, best, cmpres, files, ep_ret,
                   installs, prompts>>
    /\ UNCHANGED auxvars

\* lines 982-987: download the NDP companion next, if present
DownloadMsuNdp ==
    /\ pc = "dl_msu_ndp"
    /\ IF SelectedNdp # ""
       THEN CallDownload("ndp", "msu_confirm")
       ELSE /\ Go("msu_confirm")
            /\ UNCHANGED <<downloads, completed, dl_ret>>
            /\ UNCHANGED dlvars
    /\ UNCHANGED <<build, dry_run, local_parts, folders, same_branch,
                   complete_builds, probed, markers, best, cmpres, files, ep_ret,
                   installs, prompts>>
    /\ UNCHANGED auxvars

\* lines 989-994: unless dry-run, "Do you want to install the updates now?"
MsuConfirmInstall ==
    /\ pc = "msu_confirm"
    /\ IF dry_run
       THEN /\ Go("ep")
            /\ ep_ret' = "finish"
            /\ UNCHANGED prompts
       ELSE \E ans \in BOOLEAN :
              /\ Asked("install", ans)
              /\ IF ans THEN Go("inst_msu") ELSE Exit(0, "InstallDeclined")
              /\ UNCHANGED ep_ret
    /\ UNCHANGED <<build, dry_run, local_parts, folders, same_branch,
                   complete_builds, probed, markers, best, cmpres, files, dl_ret,
                   downloads, completed, installs>>
    /\ UNCHANGED dlvars
    /\ UNCHANGED auxvars

\* lines 996-1001: install the MSU; a non-zero code ends the run
InstallMsu ==
    /\ pc = "inst_msu"
    /\ \E rc \in {0, 1} :
         /\ installs' = Append(installs, <<"msu", rc>>)
         /\ IF rc # 0 THEN Exit(1, "InstallFailure") /\ UNCHANGED ep_ret
            ELSE IF SelectedNdp # "" THEN Go("inst_msu_ndp") /\ UNCHANGED ep_ret
            ELSE Go("ep") /\ ep_ret' = "finish"
    /\ UNCHANGED <<build, dry_run, local_parts, folders, same_branch,
                   complete_builds, probed, markers, best, cmpres, files, dl_ret,
                   downloads, completed, prompts>>
    /\ UNCHANGED dlvars
    /\ UNCHANGED auxvars

\* lines 1003-1007: install the NDP companion after the MSU; a failure is logged
InstallMsuNdp ==
    /\ pc = "inst_msu_ndp"
    /\ \E rc \in {0, 1} : installs' = Append(installs, <<"ndp", rc>>)
    /\ Go("ep")
    /\ ep_ret' = "finish"
    /\ UNCHANGED <<build, dry_run, local_parts, folders, same_branch,
                   complete_builds, probed, markers, best, cmpres, files, dl_ret,
                   downloads, completed, prompts>>
    /\ UNCHANGED dlvars
    /\ UNCHANGED auxvars

\* lines 1015-1020: download the CAB first
DownloadCab ==
    /\ pc = "dl_cab"
    /\ CallDownload("cab", "dl_esd")
    /\ UNCHANGED <<build, dry_run, local_parts, folders, same_branch,
                   complete_builds, probed, markers, best, cmpres, files, ep_ret,
                   installs, prompts>>
    /\ UNCHANGED auxvars

\* lines 1022-1027: download the ESD next
DownloadEsd ==
    /\ pc = "dl_esd"
    /\ CallDownload("esd", "dl_ndp")
    /\ UNCHANGED <<build, dry_run, local_parts, folders, same_branch,
                   complete_builds, probed, markers, best, cmpres, files, ep_ret,
                   installs, prompts>>
    /\ UNCHANGED auxvars

\* lines 1029-1035: download the NDP companion next, if present
DownloadNdp ==
    /\ pc = "dl_ndp"
    /\ IF SelectedNdp # ""
       THEN CallDownload("ndp", "cab_confirm")
       ELSE /\ Go("cab_confirm")
            /\ UNCHANGED <<downloads, completed, dl_ret>>
            /\ UNCHANGED dlvars
    /\ UNCHANGED <<build, dry_run, local_parts, folders, same_branch,
                   complete_builds, probed, markers, best, cmpres, files, ep_ret,
                   installs, prompts>>
    /\ UNCHANGED auxvars

\* the install confirmation asked and its answer ignored
CabConfirmInstallUngated ==
    /\ pc = "cab_confirm"
    /\ IF dry_run
       THEN /\ Go("ep")
            /\ ep_ret' = "finish"
            /\ UNCHANGED prompts
       ELSE \E ans \in BOOLEAN :
              /\ Asked("install", ans)
              /\ Go("inst_cab")
              /\ UNCHANGED ep_ret
    /\ UNCHANGED <<build, dry_run, local_parts, folders, same_branch,
                   complete_builds, probed, markers, best, cmpres, files, dl_ret,
                   downloads, completed, installs>>
    /\ UNCHANGED dlvars
    /\ UNCHANGED auxvars

\* lines 1037-1042: unless dry-run, "Do you want to install the updates now?"
CabConfirmInstall ==
    /\ pc = "cab_confirm"
    /\ IF dry_run
       THEN /\ Go("ep")
            /\ ep_ret' = "finish"
            /\ UNCHANGED prompts
       ELSE \E ans \in BOOLEAN :
              /\ Asked("install", ans)
              /\ IF ans THEN Go("inst_cab") ELSE Exit(0, "InstallDeclined")
              /\ UNCHANGED ep_ret
    /\ UNCHANGED <<build, dry_run, local_parts, folders, same_branch,
                   complete_builds, probed, markers, best, cmpres, files, dl_ret,
                   downloads, completed, installs>>
    /\ UNCHANGED dlvars
    /\ UNCHANGED auxvars

\* lines 1044-1049: install the CAB; a non-zero code ends the run
InstallCab ==
    /\ pc = "inst_cab"
    /\ \E rc \in {0, 1} :
         /\ installs' = Append(installs, <<"cab", rc>>)
         /\ IF rc # 0 THEN Exit(1, "InstallFailure") ELSE Go("inst_esd")
    /\ UNCHANGED <<build, dry_run, local_parts, folders, same_branch,
                   complete_builds, probed, markers, best, cmpres, files, dl_ret,
                   ep_ret, downloads, completed, prompts>>
    /\ UNCHANGED dlvars
    /\ UNCHANGED auxvars

\* the ESD installed with a non-zero code only logged
InstallEsdLogsOnly ==
    /\ pc = "inst_esd"
    /\ \E rc \in {0, 1} : installs' = Append(installs, <<"esd", rc>>)
    /\ IF SelectedNdp # "" THEN Go("inst_ndp") /\ UNCHANGED ep_ret
       ELSE Go("ep") /\ ep_ret' = "finish"
    /\ UNCHANGED <<build, dry_run, local_parts, folders, same_branch,
                   complete_builds, probed, markers, best, cmpres, files, dl_ret,
                   downloads, completed, prompts>>
    /\ UNCHANGED dlvars
    /\ UNCHANGED auxvars

\* lines 1058-1063: install the ESD; a non-zero code ends the run
InstallEsd ==
    /\ pc = "inst_esd"
    /\ \E rc \in {0, 1} :
         /\ installs' = Append(installs, <<"esd", rc>>)
         /\ IF rc # 0 THEN Exit(1, "InstallFailure") /\ UNCHANGED ep_ret
            ELSE IF SelectedNdp # "" THEN Go("inst_ndp") /\ UNCHANGED ep_ret
            ELSE Go("ep") /\ ep_ret' = "finish"
    /\ UNCHANGED <<build, dry_run, local_parts, folders, same_branch,
                   complete_builds, probed, markers, best, cmpres, files, dl_ret,
                   downloads, completed, prompts>>
    /\ UNCHANGED dlvars
    /\ UNCHANGED auxvars

\* lines 1065-1069: install the NDP companion after the ESD; a failure is logged
InstallNdp ==
    /\ pc = "inst_ndp"
    /\ \E rc \in {0, 1} : installs' = Append(installs, <<"ndp", rc>>)
    /\ Go("ep")
    /\ ep_ret' = "finish"
    /\ UNCHANGED <<build, dry_run, local_parts, folders, same_branch,
                   complete_builds, probed, markers, best, cmpres, files, dl_ret,
                   downloads, completed, prompts>>
    /\ UNCHANGED dlvars
    /\ UNCHANGED auxvars

\* where the caller of check_and_offer_enablement_package goes on: sys.exit(0)
\* at line 906, or lines 1075-1102 (cleanup and reboot prompts, then the end)
AfterEp ==
    IF ep_ret = "exit0" THEN Exit(0, "ReinstallDeclined")
    ELSE Exit(0, "Finished")

\* check_and_offer_enablement_package lines 658-699, 706-716: offer the
\* enablement package when eligible; an accepted offer downloads it
EnablementCheck ==
    /\ pc = "ep"
    /\ \E dv \in DisplayVersions :
         IF OfferEp(dv, local_parts[1], local_parts)
         THEN \E ans \in BOOLEAN :
                /\ Asked("ep", ans)
                /\ IF ans THEN CallDownload("ep", "ep_install")
                   ELSE /\ AfterEp
                        /\ UNCHANGED <<downloads, completed, dl_ret>>
                        /\ UNCHANGED dlvars
         ELSE /\ AfterEp
              /\ UNCHANGED <<prompts, downloads, completed, dl_ret>>
              /\ UNCHANGED dlvars
    /\ UNCHANGED <<build, dry_run, local_parts, folders, same_branch,
                   complete_builds, probed, markers, best, cmpres, files, ep_ret,
                   installs>>
    /\ UNCHANGED auxvars

\* lines 700-705: unless dry-run, install the enablement package; its exit
\* code is only logged
EnablementInstall ==
    /\ pc = "ep_install"
    /\ IF dry_run THEN installs' = installs
       ELSE \E rc \in {0, 1} : installs' = Append(installs, <<"ep", rc>>)
    /\ AfterEp
    /\ UNCHANGED <<build, dry_run, local_parts, folders, same_branch,
                   complete_builds, probed, markers, best, cmpres, files, dl_ret,
                   ep_ret, downloads, completed, prompts>>
    /\ UNCHANGED dlvars
    /\ UNCHANGED auxvars

\* download_file returned dest_path to main
DownloadReturned ==
    /\ pc = "in_download"
    /\ dl_pc = "returned"
    /\ DlRelease
    /\ completed' = Append(completed, downloads[Len(downloads)])
    /\ Go(dl_ret)
    /\ UNCHANGED <<build, dry_run, local_parts, folders, same_branch,
                   complete_builds, probed, markers, best, cmpres, files, dl_ret,
                   ep_ret, downloads, installs, prompts>>
    /\ UNCHANGED auxvars

\* an exception of download_file swallowed, main going on as after a return
DownloadRaisedGoesOn ==
    /\ pc = "in_download"
    /\ dl_pc = "raised"
    /\ DlRelease
    /\ Go(dl_ret)
    /\ UNCHANGED <<build, dry_run, local_parts, folders, same_branch,
                   complete_builds, probed, markers, best, cmpres, files, dl_ret,
                   ep_ret, downloads, completed, installs, prompts>>
    /\ UNCHANGED auxvars

\* download_file raised: nothing in main catches it, the interpreter exits 1
DownloadRaised ==
    /\ pc = "in_download"
    /\ dl_pc = "raised"
    /\ DlRelease
    /\ Exit(1, "DownloadFailed")
    /\ UNCHANGED <<build, dry_run, local_parts, folders, same_branch,
                   complete_builds, probed, markers, best, cmpres, files, dl_ret,
                   ep_ret, downloads, completed, installs, prompts>>
    /\ UNCHANGED auxvars

Next ==
    \/ PromptCheck
    \/ ReadLocalVersion
    \/ SelectMirror
    \/ FetchIndex
    \/ BranchFilter
    \/ ProbeMarker
    \/ CompletenessCheck
    \/ SelectBuild
    \/ VersionCompare
    \/ ConfirmDownload
    \/ ListFiles
    \/ DownloadMsu
    \/ DownloadMsuNdp
    \/ MsuConfirmInstall
    \/ InstallMsu
    \/ InstallMsuNdp
    \/ DownloadCab
    \/ DownloadEsd
    \/ DownloadNdp
    \/ CabConfirmInstall
    \/ InstallCab
    \/ InstallEsd
    \/ InstallNdp
    \/ EnablementCheck
    \/ EnablementInstall
    \/ DownloadReturned
    \/ DownloadRaised
    \/ DlNoLocalFile
    \/ DlVerify
    \/ DlGet
    \/ DlChunk
    \/ DlFinish
    \/ DlHandler

Spec == Init /\ [][Next]_vars

(* ------------------------------------------------------ mirror selection *)
\* the longest candidate list tried
MaxMirrors == 3

\* 1024 * 1024, the divisor of line 270
MiB == 1048576

\* candidate base URLs, in the order of the longest list
MirrorNames == <<"primary", "mirror", "failsafe", "spare">>

\* the candidate lists: the first n names
MirrorLists == {SubSeq(MirrorNames, 1, n) : n \in 0..MaxMirrors}

\* total_bytes counted by a probe, and the elapsed time it measured
ProbeBytes == {0, 1, 2}
ProbeElapsed == {0, 1, 2}

\* what a candidate's probe meets: an exception (connection error, timeout,
\* error status), or a success response with the data and time measured
ProbeOutcomes ==
    [ok : {FALSE}, bytes : {0}, elapsed : {0}]
    \cup [ok : {TRUE}, bytes : ProbeBytes, elapsed : ProbeElapsed]

\* the 0 appended for a failed probe, as a fraction
ZeroSpeed == [num |-> 0, den |-> 1]

\* line 270: total_bytes / (elapsed * 1024 * 1024) if elapsed > 0 else 0
Speed(total_bytes, elapsed) ==
    IF elapsed > 0 THEN [num |-> total_bytes, den |-> elapsed * MiB]
    ELSE ZeroSpeed

\* comparisons of two speeds
SpeedLess(x, y) == x.num * y.den < y.num * x.den
SpeedIsZero(x) == x.num = 0

\* position of the first element of r whose speed no element exceeds
FirstMaxIndex(r) ==
    CHOOSE i \in 1..Len(r) :
        /\ \A j \in 1..Len(r) : ~SpeedLess(r[i][1], r[j][1])
        /\ \A j \in 1..(i - 1) : SpeedLess(r[j][1], r[i][1])

\* r without its i-th element
RemoveAt(r, i) == SubSeq(r, 1, i - 1) \o SubSeq(r, i + 1, Len(r))

RECURSIVE SortDescUnstable(_)
RECURSIVE SortDesc(_)
\* a descending sort putting the later of two equal speeds first
SortDescUnstable(r) ==
    IF r = <<>> THEN <<>>
    ELSE LET i == CHOOSE k \in 1..Len(r) :
                      /\ \A j \in 1..Len(r) : ~SpeedLess(r[k][1], r[j][1])
                      /\ \A j \in (k + 1)..Len(r) : SpeedLess(r[j][1], r[k][1])
         IN  <<r[i]>> \o SortDescUnstable(RemoveAt(r, i))

\* line 291: results.sort(reverse=True, key=speed), a stable sort: equal
\* speeds keep their list order
SortDesc(r) ==
    IF r = <<>> THEN <<>>
    ELSE LET i == FirstMaxIndex(r) IN <<r[i]>> \o SortDesc(RemoveAt(r, i))

MirEnded == m_pc \in {"returned", "exited", "crashed"}

\* a call of one of the two functions on a candidate list, each candidate's
\* probe outcome being fixed for the call
InitMirror ==
    /\ MainIdle
    /\ DlIdle
    /\ disk = NoFile
    /\ remote = <<>>
    /\ sidecar = [kind |-> "missing", hex |-> 0, upper |-> FALSE]
    /\ CmpIdle
    /\ ParseIdle
    /\ m_pc = "probing"
    /\ m_fn \in {"choose_fastest_mirror", "try_mirrors"}
    /\ mirrors \in MirrorLists
    /\ probe \in [1..Len(mirrors) -> ProbeOutcomes]
    /\ results = <<>>
    /\ speed_bound = FALSE
    /\ m_i = 0
    /\ m_ret = ""
    /\ ExistsIdle
    /\ IndexIdle
    /\ FilesIdle
    /\ SpinIdle

\* choose_fastest_mirror lines 249-273: one iteration of the probe loop; a
\* success assigns speed_mbs and appends it, an exception appends 0
MirrorProbe ==
    /\ m_fn = "choose_fastest_mirror"
    /\ m_pc = "probing"
    /\ Len(results) < Len(mirrors)
    /\ LET i == Len(results) + 1 IN
       IF probe[i].ok
       THEN /\ results' = Append(results,
                                 <<Speed(probe[i].bytes, probe[i].elapsed), mirrors[i]>>)
            /\ speed_bound' = TRUE
       ELSE /\ results' = Append(results, <<ZeroSpeed, mirrors[i]>>)
            /\ speed_bound' = speed_bound
    /\ UNCHANGED <<m_pc, m_fn, mirrors, probe, m_i, m_ret>>
    /\ UNCHANGED <<dlvars, mainvars, cmpvars, parsevars, existsvars, idxvars, filevars, spinvars>>

\* lines 275-283: the results are printed, each line formatting speed_mbs;
\* with speed_mbs never assigned the first line raises UnboundLocalError
MirrorPrint ==
    /\ m_fn = "choose_fastest_mirror"
    /\ m_pc = "probing"
    /\ Len(results) = Len(mirrors)
    /\ m_pc' = IF results # <<>> /\ ~speed_bound THEN "crashed" ELSE "pick"
    /\ UNCHANGED <<m_fn, mirrors, probe, results, speed_bound, m_i, m_ret>>
    /\ UNCHANGED <<dlvars, mainvars, cmpvars, parsevars, existsvars, idxvars, filevars, spinvars>>

\* lines 286-294: no result or every speed 0 logs "No mirrors responded
\* successfully" and exits 1; otherwise sort and return the first base
MirrorPick ==
    /\ m_fn = "choose_fastest_mirror"
    /\ m_pc = "pick"
    /\ IF results = <<>> \/ \A i \in 1..Len(results) : SpeedIsZero(results[i][1])
       THEN /\ m_pc' = "exited"
            /\ UNCHANGED <<results, m_ret>>
       ELSE /\ results' = SortDesc(results)
            /\ m_ret' = results'[1][2]
            /\ m_pc' = "returned"
    /\ UNCHANGED <<m_fn, mirrors, probe, speed_bound, m_i>>
    /\ UNCHANGED <<dlvars, mainvars, cmpvars, parsevars, existsvars, idxvars, filevars, spinvars>>

\* try_mirrors lines 214-221: the next base is fetched; success returns it
TryMirror ==
    /\ m_fn = "try_mirrors"
    /\ m_pc = "probing"
    /\ m_i < Len(mirrors)
    /\ m_i' = m_i + 1
    /\ IF probe[m_i'].ok
       THEN m_pc' = "returned" /\ m_ret' = mirrors[m_i']
       ELSE UNCHANGED <<m_pc, m_ret>>
    /\ UNCHANGED <<m_fn, mirrors, probe, results, speed_bound>>
    /\ UNCHANGED <<dlvars, mainvars, cmpvars, parsevars, existsvars, idxvars, filevars, spinvars>>

\* try_mirrors lines 222-224: "All servers failed", exit 1
TryMirrorsFail ==
    /\ m_fn = "try_mirrors"
    /\ m_pc = "probing"
    /\ m_i = Len(mirrors)
    /\ m_pc' = "exited"
    /\ UNCHANGED <<m_fn, mirrors, probe, results, speed_bound, m_i, m_ret>>
    /\ UNCHANGED <<dlvars, mainvars, cmpvars, parsevars, existsvars, idxvars, filevars, spinvars>>

NextMirror ==
    \/ MirrorProbe
    \/ MirrorPrint
    \/ MirrorPick
    \/ TryMirror
    \/ TryMirrorsFail

SpecMirror == InitMirror /\ [][NextMirror]_vars

(* ------------------------------------------- compare_version_lists alone *)
\* the longest list compared
MaxVerLen == 2

\* the components of the lists compared
VerNums == {0, 1, 2}

\* the lists of at most MaxVerLen components
VerLists == UNION {[1..n -> VerNums] : n \in 0..MaxVerLen}

\* pairs of build versions as main compares them
VerPairs ==
    {<<<<26100, 6130>>, <<26100, 1742>>>>, <<<<22621, 1>>, <<26100, 1>>>>,
     <<<<26100, 1742>>, <<26100, 6130>>>>, <<<<26100, 1742>>, <<26100>>>>}

\* a caller is about to call compare_version_lists(a, b)
InitCompare ==
    /\ MainIdle
    /\ DlIdle
    /\ disk = NoFile
    /\ remote = <<>>
    /\ sidecar = [kind |-> "missing", hex |-> 0, upper |-> FALSE]
    /\ MirIdle
    /\ ParseIdle
    /\ c_pc = "call"
    /\ \E ab \in (VerLists \X VerLists) \cup VerPairs :
         /\ c_a = ab[1]
         /\ c_b = ab[2]
    /\ c_res = 0
    /\ ExistsIdle
    /\ IndexIdle
    /\ FilesIdle
    /\ SpinIdle

\* lines 199-208: the call returns
CompareCall ==
    /\ c_pc = "call"
    /\ c_res' = CompareVersionLists(c_a, c_b)
    /\ c_pc' = "returned"
    /\ UNCHANGED <<c_a, c_b>>
    /\ UNCHANGED <<dlvars, mainvars, mirvars, parsevars, existsvars, idxvars, filevars, spinvars>>

NextCompare == CompareCall

SpecCompare == InitCompare /\ [][NextCompare]_vars

(* ---------------------------------------- normalize_local_to_short alone *)
\* the longest version string parsed
MaxRawLen == 5

\* the decimal digits, in order
Digits == <<"0", "1", "2", "3", "4", "5", "6", "7", "8", "9">>

\* the characters of the version strings parsed
VerChars == {"0", "1", ".", "-"}

\* the strings of at most MaxRawLen characters
RawStrings == UNION {[1..n -> VerChars] : n \in 0..MaxRawLen}

\* what \d matches
IsDigit(ch) == \E d \in 1..Len(Digits) : Digits[d] = ch

DigitVal(ch) == (CHOOSE d \in 1..Len(Digits) : Digits[d] = ch) - 1

RECURSIVE RunEnd(_, _)
\* the last position of the digit run that starts at i (\d+ is greedy)
RunEnd(str, i) ==
    IF i < Len(str) /\ IsDigit(str[i + 1]) THEN RunEnd(str, i + 1) ELSE i

RECURSIVE FindAllFrom(_, _)
\* re.findall(r"\d+", str) scanning from position i: the non-overlapping
\* matches, left to right
FindAllFrom(str, i) ==
    IF i > Len(str) THEN <<>>
    ELSE IF IsDigit(str[i])
    THEN <<SubSeq(str, i, RunEnd(str, i))>> \o FindAllFrom(str, RunEnd(str, i) + 1)
    ELSE FindAllFrom(str, i + 1)

RECURSIVE IntOf(_)
\* int(run) for a run of decimal digits
IntOf(run) ==
    IF run = <<>> THEN 0
    ELSE IntOf(SubSeq(run, 1, Len(run) - 1)) * 10 + DigitVal(run[Len(run)])

RECURSIVE StrOf(_)
\* str(n) for n >= 0
StrOf(n) ==
    IF n < 10 THEN <<Digits[n + 1]>>
    ELSE StrOf(n \div 10) \o <<Digits[(n % 10) + 1]>>

RECURSIVE JoinDot(_)
\* ".".join(str(x) for x in parts)
JoinDot(parts) ==
    IF parts = <<>> THEN <<>>
    ELSE IF Len(parts) = 1 THEN StrOf(parts[1])
    ELSE StrOf(parts[1]) \o <<".">> \o JoinDot(Tail(parts))

\* a normalisation keeping every number of the string
NormalizeKeepAll(str) ==
    LET nums == FindAllFrom(str, 1) IN
    IF nums = <<>> THEN [short_str |-> str, short_parts |-> <<>>]
    ELSE LET parts == [k \in 1..Len(nums) |-> IntOf(nums[k])]
         IN  [short_str |-> JoinDot(parts), short_parts |-> parts]

\* lines 186-196: no number returns the string itself and []; otherwise the
\* first number and, when there is one, the second
NormalizeLocalToShort(str) ==
    LET nums == FindAllFrom(str, 1) IN
    IF nums = <<>> THEN [short_str |-> str, short_parts |-> <<>>]
    ELSE LET parts == <<IntOf(nums[1])>>
                      \o (IF Len(nums) > 1 THEN <<IntOf(nums[2])>> ELSE <<>>)
         IN  [short_str |-> JoinDot(parts), short_parts |-> parts]

\* a caller is about to call normalize_local_to_short(full_ver)
InitParse ==
    /\ MainIdle
    /\ DlIdle
    /\ disk = NoFile
    /\ remote = <<>>
    /\ sidecar = [kind |-> "missing", hex |-> 0, upper |-> FALSE]
    /\ MirIdle
    /\ CmpIdle
    /\ p_pc = "call"
    /\ full_ver \in RawStrings
    /\ short_str = <<>>
    /\ short_parts = <<>>
    /\ ExistsIdle
    /\ IndexIdle
    /\ FilesIdle
    /\ SpinIdle

\* lines 181-196: the call returns its tuple (no path of it raises)
ParseCall ==
    /\ p_pc = "call"
    /\ LET r == NormalizeLocalToShort(full_ver) IN
       /\ short_str' = r.short_str
       /\ short_parts' = r.short_parts
    /\ p_pc' = "returned"
    /\ UNCHANGED full_ver
    /\ UNCHANGED <<dlvars, mainvars, mirvars, cmpvars, existsvars, idxvars, filevars, spinvars>>

NextParse == ParseCall

SpecParse == InitParse /\ [][NextParse]_vars

(* ------------------------------------------------ remote_file_exists alone *)
\* the most resources one caller probes
MaxHeads == 3

\* line 309: the one status that means "exists"
HttpOk == 200

\* statuses a HEAD request can be answered with: the file is there, two other
\* 2xx answers, a redirect (requests.head does not follow it), two errors
Statuses == {200, 204, 206, 301, 404, 500}

\* line 308: requests.head either raises (connection, timeout, TLS) or
\* returns a response carrying a status
HeadOutcomes ==
    {[kind |-> "error", status |-> 0]}
        \cup {[kind |-> "response", status |-> s] : s \in Statuses}

\* remote_file_exists answering True on every 2xx status
RemoteFileExistsAnySuccess(o) ==
    IF o.kind = "error"
    THEN [raised |-> FALSE, value |-> FALSE]
    ELSE [raised |-> FALSE, value |-> (o.status >= 200 /\ o.status < 300)]

\* lines 304-311: the result of one call; the try of line 307 covers the
\* request and the comparison, and its handler returns False
RemoteFileExists(o) ==
    IF o.kind = "error"
    THEN [raised |-> FALSE, value |-> FALSE]
    ELSE [raised |-> FALSE, value |-> (o.status = HttpOk)]

\* a caller is about to probe up to MaxHeads resources
InitExists ==
    /\ MainIdle
    /\ DlIdle
    /\ disk = NoFile
    /\ remote = <<>>
    /\ sidecar = [kind |-> "missing", hex |-> 0, upper |-> FALSE]
    /\ MirIdle
    /\ CmpIdle
    /\ ParseIdle
    /\ e_outcomes \in UNION {[1..n -> HeadOutcomes] : n \in 0..MaxHeads}
    /\ e_answers = <<>>
    /\ IndexIdle
    /\ FilesIdle
    /\ SpinIdle

\* lines 304-311: the next call is made and returns
ExistsCall ==
    /\ Len(e_answers) < Len(e_outcomes)
    /\ e_answers' = Append(e_answers, RemoteFileExists(e_outcomes[Len(e_answers) + 1]))
    /\ UNCHANGED e_outcomes
    /\ UNCHANGED <<dlvars, mainvars, mirvars, cmpvars, parsevars, idxvars, filevars, spinvars>>

NextExists == ExistsCall

SpecExists == InitExists /\ [][NextExists]_vars

(* ------------------------------------ parse_h5ai_index_for_folders alone *)
\* the most anchors of one index page
MaxAnchors == 4

\* the anchors an index page is made of: href and link text, as characters
\* (none carries outer white space, so the strip() of lines 317 and 323
\* leaves them as they are)
IndexAnchors == {
    \* the parent link
    [href |-> <<".", ".", "/">>, text |-> <<".", ".">>],
    \* the root link, with a version as its text
    [href |-> <<"/">>, text |-> <<"7", ".", "2">>],
    \* a plain build folder
    [href |-> <<"5", ".", "0", "/">>, text |-> <<"5", ".", "0">>],
    \* a plain build folder
    [href |-> <<"7", ".", "2", "/">>, text |-> <<"7", ".", "2">>],
    \* a nested path whose final segment is 0.1
    [href |-> <<"a", "/", "b", "/", "1", "0", ".", "0", "/", "0", ".", "1", "/">>, text |-> <<"0", ".", "1">>],
    \* four runs behind the 10.0 prefix
    [href |-> <<"1", "0", ".", "0", ".", "5", ".", "0", "/">>, text |-> <<"x">>],
    \* no digit in the href, a zero-padded version as text
    [href |-> <<"x", "/">>, text |-> <<"0", "7", ".", "2">>],
    \* one run in the href
    [href |-> <<"7", "/">>, text |-> <<"7", ".", "2">>],
    \* four runs without the 10.0 prefix
    [href |-> <<"1", ".", "2", ".", "3", ".", "4", "/">>, text |-> <<>>],
    \* a major of two digits
    [href |-> <<"1", "2", ".", "0", "/">>, text |-> <<"1", "2", ".", "0">>]
}

\* the index pages parsed
IndexPages == UNION {[1..n -> IndexAnchors] : n \in 0..MaxAnchors}

RECURSIVE RStrip(_, _)
\* str.rstrip(ch)
RStrip(str, ch) ==
    IF str # <<>> /\ str[Len(str)] = ch
    THEN RStrip(SubSeq(str, 1, Len(str) - 1), ch)
    ELSE str

RECURSIVE LastPiece(_, _)
\* str.split(sep)[-1]: what follows the last sep, the whole string without one
LastPiece(str, sep) ==
    IF str = <<>> THEN <<>>
    ELSE IF str[Len(str)] = sep THEN <<>>
    ELSE LastPiece(SubSeq(str, 1, Len(str) - 1), sep) \o <<str[Len(str)]>>

\* line 318: the hrefs skipped outright
IsParentOrRoot(href) == href \in {<<".", ".", "/">>, <<"/">>}

\* lines 320-325: the digit runs of the href's last path segment, or of the
\* link text when that segment has none
AnchorNums(a) ==
    LET token == LastPiece(RStrip(a.href, "/"), "/")
        nums == FindAllFrom(token, 1)
    IN  IF nums # <<>> THEN nums ELSE FindAllFrom(a.text, 1)

\* a parser that always takes the first two runs
ShortNameFirstTwo(nums) == JoinDot(<<IntOf(nums[1]), IntOf(nums[2])>>)

\* lines 328-332: runs three and four behind a "10", "0" prefix, else runs
\* one and two, each through int()
ShortName(nums) ==
    IF Len(nums) >= 4 /\ nums[1] = <<"1", "0">> /\ nums[2] = <<"0">>
    THEN JoinDot(<<IntOf(nums[3]), IntOf(nums[4])>>)
    ELSE JoinDot(<<IntOf(nums[1]), IntOf(nums[2])>>)

\* x in list
InList(x, list) == \E k \in 1..Len(list) : list[k] = x

\* lines 316-334: one iteration of the loop over the anchors
FolderStep(acc, a) ==
    IF IsParentOrRoot(a.href) THEN acc
    ELSE LET nums == AnchorNums(a) IN
         IF Len(nums) < 2 THEN acc
         ELSE IF InList(ShortName(nums), acc) THEN acc
         ELSE Append(acc, ShortName(nums))

RECURSIVE FolderLoop(_, _, _)
\* lines 316-334: the loop from anchor i on
FolderLoop(anchors, i, acc) ==
    IF i > Len(anchors) THEN acc
    ELSE FolderLoop(anchors, i + 1, FolderStep(acc, anchors[i]))

RECURSIVE SplitOn(_, _)
\* str.split(sep)
SplitOn(str, sep) ==
    IF ~InList(sep, str) THEN <<str>>
    ELSE LET k == CHOOSE j \in 1..Len(str) :
                      /\ str[j] = sep
                      /\ \A h \in 1..(j - 1) : str[h] # sep
         IN  <<SubSeq(str, 1, k - 1)>> \o SplitOn(SubSeq(str, k + 1, Len(str)), sep)

\* line 335: the sort key, tuple(int(x) for x in v.split("."))
FolderKey(v) == LET xs == SplitOn(v, ".") IN [k \in 1..Len(xs) |-> IntOf(xs[k])]

RECURSIVE TupleLess(_, _)
\* tuple comparison: a < b
TupleLess(a, b) ==
    IF a = <<>> THEN b # <<>>
    ELSE IF b = <<>> THEN FALSE
    ELSE IF a[1] # b[1] THEN a[1] < b[1]
    ELSE TupleLess(Tail(a), Tail(b))

\* the first position of list holding a least key
FirstMinIndex(list) ==
    CHOOSE k \in 1..Len(list) :
        /\ \A j \in 1..Len(list) : ~TupleLess(FolderKey(list[j]), FolderKey(list[k]))
        /\ \A j \in 1..(k - 1) : TupleLess(FolderKey(list[k]), FolderKey(list[j]))

RECURSIVE SortFolders(_)
\* line 335: list.sort(key=...), ascending and stable
SortFolders(list) ==
    IF list = <<>> THEN <<>>
    ELSE LET k == FirstMinIndex(list)
         IN  <<list[k]>> \o SortFolders(RemoveAt(list, k))

\* lines 313-336
ParseIndexForFolders(anchors) == SortFolders(FolderLoop(anchors, 1, <<>>))

\* a caller is about to call parse_h5ai_index_for_folders(html_text)
InitIndex ==
    /\ MainIdle
    /\ DlIdle
    /\ disk = NoFile
    /\ remote = <<>>
    /\ sidecar = [kind |-> "missing", hex |-> 0, upper |-> FALSE]
    /\ MirIdle
    /\ CmpIdle
    /\ ParseIdle
    /\ ExistsIdle
    /\ i_pc = "call"
    /\ i_anchors \in IndexPages
    /\ i_folders = <<>>
    /\ FilesIdle
    /\ SpinIdle

\* lines 313-336: the call returns its list
IndexCall ==
    /\ i_pc = "call"
    /\ i_folders' = ParseIndexForFolders(i_anchors)
    /\ i_pc' = "returned"
    /\ UNCHANGED i_anchors
    /\ UNCHANGED <<dlvars, mainvars, mirvars, cmpvars, parsevars, existsvars, filevars, spinvars>>

NextIndex == IndexCall

SpecIndex == InitIndex /\ [][NextIndex]_vars

(* ------------------------------------------------- parse_h5ai_files alone *)
\* the most anchors of one folder page
MaxHrefs == 3

\* the hrefs a folder page is made of, as characters
FileHrefs == {
    \* a file
    <<"a", ".", "c", "a", "b">>,
    \* a directory
    <<"b", "/">>,
    \* the same name in capitals
    <<"A", ".", "C", "A", "B">>,
    \* a file behind a directory
    <<"d", "/", "a", ".", "c", "a", "b">>,
    \* a file whose dot is escaped
    <<"a", "%", "2", "E", "c", "a", "b">>,
    \* a name ending with an escaped separator
    <<"b", "%", "2", "F">>,
    \* a file whose first letter is escaped
    <<"%", "4", "1", ".", "C", "A", "B">>
}

\* the folder pages parsed
FilePages == UNION {[1..n -> FileHrefs] : n \in 0..MaxHrefs}

\* the characters of the hrefs, in code point order
CodeOrder == <<"%", ".", "/", "0", "1", "2", "4", "A", "B", "C", "E", "F", "a", "b", "c", "d">>

\* ord(ch), up to an increasing map
Code(ch) == CHOOSE k \in 1..Len(CodeOrder) : CodeOrder[k] = ch

\* the escapes of the hrefs and the character each stands for
Escapes == [e \in {<<"2", "E">>, <<"2", "F">>, <<"4", "1">>} |->
               IF e = <<"2", "E">> THEN "." ELSE IF e = <<"2", "F">> THEN "/" ELSE "A"]

RECURSIVE Unquote(_)
\* urllib.parse.unquote: every %XX becomes its character, anything else stays
Unquote(str) ==
    IF str = <<>> THEN <<>>
    ELSE IF /\ str[1] = "%"
            /\ Len(str) >= 3
            /\ SubSeq(str, 2, 3) \in DOMAIN Escapes
    THEN <<Escapes[SubSeq(str, 2, 3)]>> \o Unquote(SubSeq(str, 4, Len(str)))
    ELSE <<str[1]>> \o Unquote(Tail(str))

\* str.endswith(ch)
EndsWith(str, ch) == str # <<>> /\ str[Len(str)] = ch

\* a name decoded before the path is split
FileNameDecodeFirst(h) == LastPiece(Unquote(h), "/")

\* line 346: the last path segment, then decoded
FileName(h) == Unquote(LastPiece(h, "/"))

RECURSIVE FileLoop(_, _, _)
\* lines 342-346: the loop from anchor i on
FileLoop(hs, i, acc) ==
    IF i > Len(hs) THEN acc
    ELSE IF EndsWith(hs[i], "/") THEN FileLoop(hs, i + 1, acc)
    ELSE FileLoop(hs, i + 1, Append(acc, FileName(hs[i])))

RECURSIVE StrLess(_, _)
\* str comparison: a < b, by code point
StrLess(a, b) ==
    IF a = <<>> THEN b # <<>>
    ELSE IF b = <<>> THEN FALSE
    ELSE IF a[1] # b[1] THEN Code(a[1]) < Code(b[1])
    ELSE StrLess(Tail(a), Tail(b))

RECURSIVE SortedSet(_)
\* sorted(S) for a set S of strings
SortedSet(S) ==
    IF S = {} THEN <<>>
    ELSE LET least == CHOOSE x \in S : \A y \in S : ~StrLess(y, x)
         IN  <<least>> \o SortedSet(S \ {least})

\* lines 339-347
ParseFiles(hs) ==
    LET acc == FileLoop(hs, 1, <<>>)
    IN  SortedSet({acc[k] : k \in 1..Len(acc)})

\* a caller is about to call parse_h5ai_files(html_text)
InitFiles ==
    /\ MainIdle
    /\ DlIdle
    /\ disk = NoFile
    /\ remote = <<>>
    /\ sidecar = [kind |-> "missing", hex |-> 0, upper |-> FALSE]
    /\ MirIdle
    /\ CmpIdle
    /\ ParseIdle
    /\ ExistsIdle
    /\ IndexIdle
    /\ f_pc = "call"
    /\ f_hrefs \in FilePages
    /\ f_files = <<>>
    /\ SpinIdle

\* lines 339-347: the call returns its list
FilesCall ==
    /\ f_pc = "call"
    /\ f_files' = ParseFiles(f_hrefs)
    /\ f_pc' = "returned"
    /\ UNCHANGED f_hrefs
    /\ UNCHANGED <<dlvars, mainvars, mirvars, cmpvars, parsevars, existsvars, idxvars, spinvars>>

NextFiles == FilesCall

SpecFiles == InitFiles /\ [][NextFiles]_vars

(* ---------------------------------- choose_fastest_mirror's spinner thread *)
\* lines 276-294 done: the final status line is out and the results are used
PastFinalLine == t_main \in {"consume", "returned"}

\* lines 233-246: the results list is empty, the flag set, the thread started
InitSpinner ==
    /\ MainIdle
    /\ DlIdle
    /\ disk = NoFile
    /\ remote = <<>>
    /\ sidecar = [kind |-> "missing", hex |-> 0, upper |-> FALSE]
    /\ MirIdle
    /\ CmpIdle
    /\ ParseIdle
    /\ ExistsIdle
    /\ IndexIdle
    /\ FilesIdle
    /\ t_main = "probing"
    /\ t_spin = "test"
    /\ spinner_running = TRUE
    /\ t_outcomes \in UNION {[1..n -> BOOLEAN] : n \in 1..MaxMirrors}
    /\ t_results = <<>>
    /\ t_console = "none"

\* line 239: the spinner thread tests the flag
SpinTest ==
    /\ t_spin = "test"
    /\ t_spin' = IF spinner_running THEN "write" ELSE "ended"
    /\ UNCHANGED <<t_main, spinner_running, t_outcomes, t_results, t_console>>
    /\ UNCHANGED <<dlvars, mainvars, mirvars, cmpvars, parsevars, existsvars, idxvars, filevars>>

\* lines 240-241: the spinner thread writes its frame to the console
SpinWrite ==
    /\ t_spin = "write"
    /\ t_console' = IF PastFinalLine THEN "spinner_after_final" ELSE "spinner"
    /\ t_spin' = "sleep"
    /\ UNCHANGED <<t_main, spinner_running, t_outcomes, t_results>>
    /\ UNCHANGED <<dlvars, mainvars, mirvars, cmpvars, parsevars, existsvars, idxvars, filevars>>

\* line 242: the spinner thread's sleep ends
SpinSleep ==
    /\ t_spin = "sleep"
    /\ t_spin' = "test"
    /\ UNCHANGED <<t_main, spinner_running, t_outcomes, t_results, t_console>>
    /\ UNCHANGED <<dlvars, mainvars, mirvars, cmpvars, parsevars, existsvars, idxvars, filevars>>

\* lines 249-273: one mirror is probed and its result appended
SpinProbe ==
    /\ t_main = "probing"
    /\ Len(t_results) < Len(t_outcomes)
    /\ t_results' = Append(t_results, t_outcomes[Len(t_results) + 1])
    /\ UNCHANGED <<t_main, t_spin, spinner_running, t_outcomes, t_console>>
    /\ UNCHANGED <<dlvars, mainvars, mirvars, cmpvars, parsevars, existsvars, idxvars, filevars>>

\* line 276: the flag is cleared once every mirror is probed
SpinStop ==
    /\ t_main = "probing"
    /\ Len(t_results) = Len(t_outcomes)
    /\ spinner_running' = FALSE
    /\ t_main' = "join"
    /\ UNCHANGED <<t_spin, t_outcomes, t_results, t_console>>
    /\ UNCHANGED <<dlvars, mainvars, mirvars, cmpvars, parsevars, existsvars, idxvars, filevars>>

\* line 277: join returns because the spinner thread has ended
JoinEnded ==
    /\ t_main = "join"
    /\ t_spin = "ended"
    /\ t_main' = "final"
    /\ UNCHANGED <<t_spin, spinner_running, t_outcomes, t_results, t_console>>
    /\ UNCHANGED <<dlvars, mainvars, mirvars, cmpvars, parsevars, existsvars, idxvars, filevars>>

\* line 277: join(timeout=0.2) returns because its 0.2 s have passed, the
\* spinner thread still alive; the return value is None either way and
\* is_alive() is not asked
JoinTimedOut ==
    /\ t_main = "join"
    /\ t_spin # "ended"
    /\ t_main' = "final"
    /\ UNCHANGED <<t_spin, spinner_running, t_outcomes, t_results, t_console>>
    /\ UNCHANGED <<dlvars, mainvars, mirvars, cmpvars, parsevars, existsvars, idxvars, filevars>>

\* lines 278-279: the final status line is written
FinalLine ==
    /\ t_main = "final"
    /\ t_console' = "final"
    /\ t_main' = "consume"
    /\ UNCHANGED <<t_spin, spinner_running, t_outcomes, t_results>>
    /\ UNCHANGED <<dlvars, mainvars, mirvars, cmpvars, parsevars, existsvars, idxvars, filevars>>

\* lines 282-294: the results are printed and the fastest mirror picked (or
\* the call ends in an exit or an error)
ConsumeResults ==
    /\ t_main = "consume"
    /\ t_main' = "returned"
    /\ UNCHANGED <<t_spin, spinner_running, t_outcomes, t_results, t_console>>
    /\ UNCHANGED <<dlvars, mainvars, mirvars, cmpvars, parsevars, existsvars, idxvars, filevars>>

NextSpinner ==
    \/ SpinTest
    \/ SpinWrite
    \/ SpinSleep
    \/ SpinProbe
    \/ SpinStop
    \/ JoinEnded
    \/ JoinTimedOut
    \/ FinalLine
    \/ ConsumeResults

SpecSpinner == InitSpinner /\ [][NextSpinner]_vars

(* ------------------------------------------------------------ Fetcher claims *)

\* C1 (download is idempotent on a valid local file). Whenever download_file
\* examines an existing destination file whose digest equals the digest the
\* sidecar publishes, and the verification raises no error, that step returns
\* dest_path with no GET issued and the file untouched; and a call that follows
\* a successful call, with the server unchanged, its sidecar publishing the
\* artifact's digest and no verification error, ends with zero GETs and no write.
C1_SkipStep ==
    (/\ dl_pc = "loop"
     /\ disk.exists
     /\ sidecar.kind = "text"
     /\ sidecar.hex = Digest(disk.data)
     /\ swallowed' = swallowed)
    => (/\ dl_pc' = "returned"
        /\ gets' = gets
        /\ wrote' = wrote
        /\ disk' = disk)

C1_SecondCall ==
    (/\ dl_pc = "returned"
     /\ prev.result = "returned"
     /\ ~prev.changed
     /\ ~env_changed
     /\ sidecar.kind = "text"
     /\ sidecar.hex = Digest(remote)
     /\ swallowed = 0)
    => (gets = 0 /\ ~wrote)

C1_Idempotent == [][C1_SkipStep]_vars /\ []C1_SecondCall

\* a second call has returned without any transfer, the first having transferred
\* the file, against a sidecar written in upper case
C1_Witness ==
    /\ dl_pc = "returned"
    /\ prev.result = "returned"
    /\ ~prev.changed
    /\ ~env_changed
    /\ sidecar.kind = "text"
    /\ sidecar.upper
    /\ sidecar.hex = Digest(remote)
    /\ disk = FileOf(remote)
    /\ Len(remote) > 0
    /\ swallowed = 0
    /\ gets = 0

\* C2 (downloads are checksum-verified). Whenever download_file has returned
\* dest_path, the server not having changed since the call began and its
\* sidecar publishing a digest, the file there has that digest.
C2_ChecksumVerified ==
    (dl_pc = "returned" /\ ~env_changed /\ sidecar.kind = "text")
    => (/\ disk.exists
        /\ sidecar.hex = Digest(disk.data))

\* C3 (download retry is bounded and operator-controlled). A call issues at
\* most MaxRetries transfer attempts; a declined retry prompt raises at once;
\* a failure of the MaxRetries-th attempt raises whatever the operator answers;
\* and every call ends: it returns dest_path or raises.
C3_DeclineRaises ==
    (dl_pc = "handler" /\ ~declined /\ declined') => dl_pc' = "raised"

C3_LastAttemptRaises ==
    (dl_pc = "handler" /\ gets = MaxRetries) => dl_pc' = "raised"

C3_BoundedRetry ==
    /\ [](gets <= MaxRetries)
    /\ [][C3_DeclineRaises]_vars
    /\ [][C3_LastAttemptRaises]_vars
    /\ [](dl_pc \in {"loop", "get", "stream", "handler"} => <>DlEnded)

\* the operator accepted every retry and the call raised after MaxRetries attempts
C3_Witness ==
    /\ dl_pc = "raised"
    /\ ~declined
    /\ gets = MaxRetries
    /\ max_retries = 0

(* ----------------------------------------------------------- resolver claims *)
BuildArtifacts == {"cab", "esd", "msu", "ndp"}

\* a target build has been selected
Selected == best # <<>>

\* the version comparison of the selected build has been made
Compared == Selected /\ pc # "compare"

\* C4 (the resolver never downgrades). With no override, once the selected
\* build has been compared and is lower than the local version, the run has
\* ended with status 0 and nothing was downloaded or installed; and with no
\* override, a build artifact is only ever downloaded for a build that is not
\* lower than the local version.
C4_NeverDowngrade ==
    /\ (build = <<>> /\ Compared /\ CompareVersionLists(best, local_parts) < 0)
       => (/\ pc = "done"
           /\ exit_code = 0
           /\ downloads = <<>>
           /\ installs = <<>>)
    /\ (build = <<>> /\ \E i \in 1..Len(downloads) : downloads[i] \in BuildArtifacts)
       => CompareVersionLists(best, local_parts) >= 0

\* the only complete build is older than the local one and the run has ended
C4_Witness ==
    /\ build = <<>>
    /\ local_parts = <<26100, 6130>>
    /\ best = <<26100, 1742>>
    /\ pc = "done"
    /\ exit_reason = "LocalNewer"

\* C5 (baseline forcing). With no override, local major 26100 and local minor
\* below 1742, a selection made while 26100.1742 is in the completeness-filtered
\* same-branch set selects 26100.1742, whatever else is in the set.
C5_BaselineForced ==
    (/\ build = <<>>
     /\ Selected
     /\ local_parts[1] = 26100
     /\ local_parts[2] < 1742
     /\ InSeq(<<26100, 1742>>, same_branch))
    => best = <<26100, 1742>>

\* the baseline was selected although 26100.6130 was available too
C5_Witness ==
    /\ build = <<>>
    /\ local_parts = <<26100, 1500>>
    /\ same_branch = <<<<26100, 1742>>, <<26100, 6130>>>>
    /\ best = <<26100, 1742>>

\* every same-branch build has been probed for its marker and the resolver has
\* acted on the outcome
MarkersSettled ==
    /\ folders # <<>>
    /\ probed # <<>>
    /\ probed = SameBranchOf(folders, local_parts[1])
    /\ pc \notin {"probe", "select"}

OverrideOutcome ==
    /\ InSeq(build, complete_builds) => best = build
    /\ (~InSeq(build, complete_builds) /\ InSeq(build, folders))
       => (pc = "done" /\ exit_code # 0 /\ exit_reason = "BuildUnavailable")
    /\ ~InSeq(build, folders)
       => (pc = "done" /\ exit_code # 0 /\ exit_reason = "BuildNotFound")

\* C6 as stated (override resolution for every folder list and every marker
\* assignment): once the markers are settled, an override in the filtered set is
\* selected, one in the raw list but filtered out fails with BuildUnavailable,
\* one absent from the raw list fails with BuildNotFound.
C6_OverrideAlways ==
    (build # <<>> /\ MarkersSettled) => OverrideOutcome

\* C6 as amended: the three outcomes hold whenever at least one same-branch
\* build is complete; when every same-branch build carries the marker the run
\* ends with status 0 and selects nothing, whatever the override.
C6_OverrideResolution ==
    /\ (build # <<>> /\ MarkersSettled /\ complete_builds # <<>>)
       => OverrideOutcome
    /\ (build # <<>> /\ MarkersSettled /\ complete_builds = <<>>)
       => (/\ pc = "done"
           /\ exit_code = 0
           /\ exit_reason = "MidUpload"
           /\ best = <<>>)

\* the override carries the marker while another same-branch build is complete
C6_Witness ==
    /\ build # <<>>
    /\ InSeq(build, probed)
    /\ ~InSeq(build, complete_builds)
    /\ complete_builds # <<>>
    /\ pc = "done"
    /\ exit_reason = "BuildUnavailable"

\* C7 (latest selection). With no override and the baseline rule not applying,
\* the selected build is in the completeness-filtered same-branch set and
\* compare_version_lists(selected, b) >= 0 for every b of the set.
C7_LatestSelected ==
    (/\ build = <<>>
     /\ Selected
     /\ ~(local_parts[1] = 26100 /\ local_parts[2] < 1742))
    => (/\ InSeq(best, same_branch)
        /\ \A i \in 1..Len(same_branch) :
             CompareVersionLists(best, same_branch[i]) >= 0)

\* the latest of two complete builds was selected
C7_Witness ==
    /\ build = <<>>
    /\ local_parts = <<26100, 2000>>
    /\ same_branch = <<<<26100, 1742>>, <<26100, 6130>>>>
    /\ best = <<26100, 6130>>

ReinstallDeclined ==
    /\ build = <<>>
    /\ Compared
    /\ cmpres = 0
    /\ <<"reinstall", FALSE>> \in prompts

\* C8 as stated: after a declined reinstall no download is attempted at all and
\* the run ends with status 0.
C8_NoDownloadAtAll ==
    ReinstallDeclined
    => (/\ downloads = <<>>
        /\ pc = "done" => exit_code = 0)

\* C8 as amended: after a declined reinstall no build artifact is downloaded
\* and nothing of the build is installed; the only download there can be is the
\* enablement package's, made once and only after the operator accepted its
\* offer; the run ends with status 0 unless that download raised.
C8_DeclinedReinstall ==
    ReinstallDeclined
    => (/\ \A i \in 1..Len(downloads) : downloads[i] = "ep"
        /\ Len(downloads) <= 1
        /\ downloads # <<>> => <<"ep", TRUE>> \in prompts
        /\ \A i \in 1..Len(installs) : installs[i][1] = "ep"
        /\ pc \notin {"confirm", "list_files"}
        /\ pc = "done" => (exit_code = 0 \/ exit_reason = "DownloadFailed")
        /\ (pc = "done" /\ downloads = <<>>) => exit_code = 0)

\* reinstall declined, enablement package offered and declined: the run has
\* ended with status 0 and no download
C8_Witness ==
    /\ ReinstallDeclined
    /\ <<"ep", FALSE>> \in prompts
    /\ pc = "done"
    /\ exit_code = 0
    /\ downloads = <<>>

\* C9 (an override bypasses both version checks). Once a selected override has
\* been compared, the reinstall prompt was never asked, the run did not take
\* the remote-older exit, and the resolver is at or past the
\* download-confirmation checkpoint.
C9_OverrideBypasses ==
    (build # <<>> /\ Compared)
    => (/\ best = build
        /\ \A ans \in BOOLEAN : <<"reinstall", ans>> \notin prompts
        /\ exit_reason # "LocalNewer"
        /\ \/ pc = "confirm"
           \/ \E ans \in BOOLEAN : <<"download", ans>> \in prompts)

\* an override older than the local version is at the download confirmation
C9_Witness ==
    /\ build = <<26100, 1742>>
    /\ local_parts = <<26100, 6130>>
    /\ best = build
    /\ cmpres = -1
    /\ pc = "confirm"

\* the branch filter has run
BranchFiltered ==
    /\ folders # <<>>
    /\ pc # "branch_filter"

\* C10 (BranchFiltered). Until the completeness filter replaces it, the
\* same-branch list holds exactly the remote folders whose major equals the
\* local major; when there is none the run has ended with status 1
\* (NoBuildsInBranch) with no marker probed, nothing downloaded and nothing
\* installed.
C10_BranchFiltered ==
    /\ (BranchFiltered /\ pc \in {"probe", "done"} /\ best = <<>>
        /\ exit_reason \in {"", "NoBuildsInBranch", "MidUpload"})
       => \A f \in BuildUniverse :
            InSeq(f, same_branch) <=> (InSeq(f, folders) /\ f[1] = local_parts[1])
    /\ (BranchFiltered /\ \A i \in 1..Len(folders) : folders[i][1] # local_parts[1])
       => (/\ pc = "done"
           /\ exit_code = 1
           /\ exit_reason = "NoBuildsInBranch"
           /\ probed = <<>>
           /\ downloads = <<>>
           /\ installs = <<>>)
    /\ exit_reason = "NoBuildsInBranch" => same_branch = <<>>

\* folders were listed, none of the local branch, and the run has ended
C10_Witness ==
    /\ folders = <<<<22621, 1>>>>
    /\ local_parts[1] = 26100
    /\ pc = "done"
    /\ exit_reason = "NoBuildsInBranch"

\* the completeness loop has ended and the resolver has acted on its outcome
ProbesDone ==
    /\ probed # <<>>
    /\ Len(probed) = Len(SameBranchOf(folders, local_parts[1]))
    /\ pc \notin {"read_local", "mirror", "fetch_index", "branch_filter", "probe"}

\* C11 (CompletenessFiltered). At every point of the completeness loop the
\* retained builds are exactly the probed same-branch builds whose marker probe
\* answered false, in order; and when every same-branch build carries the
\* marker the run has ended with status 0 (MidUpload) with no build selected,
\* no artifact downloaded and nothing installed.
C11_CompletenessFiltered ==
    /\ Len(markers) = Len(probed)
    /\ \A i \in 1..Len(probed) : probed[i] = SameBranchOf(folders, local_parts[1])[i]
    /\ complete_builds =
         SelectSeq(probed, LAMBDA f :
                     \E i \in 1..Len(probed) : probed[i] = f /\ ~markers[i])
    /\ (ProbesDone /\ \A i \in 1..Len(markers) : markers[i])
       => (/\ pc = "done"
           /\ exit_code = 0
           /\ exit_reason = "MidUpload"
           /\ best = <<>>
           /\ downloads = <<>>
           /\ installs = <<>>)
    /\ (pc \notin {"probe", "done"} /\ probed # <<>>) => same_branch = complete_builds

\* two same-branch builds, both carrying the marker, and the run has ended
C11_Witness ==
    /\ Len(probed) = 2
    /\ markers = <<TRUE, TRUE>>
    /\ complete_builds = <<>>
    /\ pc = "done"
    /\ exit_code = 0
    /\ exit_reason = "MidUpload"

\* the names of a list, as a set
NamesOf(fl) == {fl[i] : i \in 1..Len(fl)}

HasMsu == \E f \in NamesOf(files) : IsMsu(f)
HasCab == \E f \in NamesOf(files) : IsCab(f)
HasEsd == \E f \in NamesOf(files) : IsEsd(f)

\* C12 (ArtifactsClassified). Once the target folder is listed (non-empty):
\* with an .msu in the list the run is on the standalone path, the
\* IncompleteArtifactSet exit is never taken and no CAB or ESD is downloaded or
\* installed, whether or not a CAB or an ESD is present; with no .msu and a
\* CAB or an ESD missing the run has ended with status 1
\* (IncompleteArtifactSet) with nothing downloaded; with no .msu and both
\* present the run is on the stack+cumulative path; the IncompleteArtifactSet
\* exit is taken in no other case, so an NDP companion is never required.
C12_ArtifactsClassified ==
    /\ (files # <<>> /\ HasMsu)
       => (/\ exit_reason # "IncompleteArtifactSet"
           /\ pc \in {"dl_msu", "dl_msu_ndp", "msu_confirm", "inst_msu",
                      "inst_msu_ndp", "in_download", "ep", "ep_install", "done"}
           /\ \A i \in 1..Len(downloads) : downloads[i] \in {"msu", "ndp", "ep"}
           /\ \A i \in 1..Len(installs) : installs[i][1] \in {"msu", "ndp", "ep"})
    /\ (files # <<>> /\ ~HasMsu /\ (~HasCab \/ ~HasEsd))
       => (/\ pc = "done"
           /\ exit_code = 1
           /\ exit_reason = "IncompleteArtifactSet"
           /\ downloads = <<>>
           /\ installs = <<>>)
    /\ (files # <<>> /\ ~HasMsu /\ HasCab /\ HasEsd)
       => (/\ exit_reason # "IncompleteArtifactSet"
           /\ pc \in {"dl_cab", "dl_esd", "dl_ndp", "cab_confirm", "inst_cab",
                      "inst_esd", "inst_ndp", "in_download", "ep", "ep_install",
                      "done"}
           /\ \A i \in 1..Len(downloads) : downloads[i] # "msu")
    /\ exit_reason = "IncompleteArtifactSet"
       => (files # <<>> /\ ~HasMsu /\ (~HasCab \/ ~HasEsd))

\* the folder holds an .msu and nothing else, and the MSU is being downloaded
C12_Witness ==
    /\ files = <<"KB5043080.msu">>
    /\ downloads = <<"msu">>
    /\ pc = "in_download"

\* the first n elements of a sequence
Prefix(sq, n) == SubSeq(sq, 1, n)

IsPrefixOf(a, b) == Len(a) <= Len(b) /\ a = Prefix(b, Len(a))

\* the build-artifact downloads of the run, in call order
BuildDownloads == SelectSeq(downloads, LAMBDA u : u \in BuildArtifacts)

\* C13 (fetching order). The build artifacts are downloaded in the order
\* CAB, ESD, NDP (MSU, NDP on the standalone path), each call starting only
\* after every earlier call has returned; a download_file call that raised
\* (retries exhausted or a retry declined) has ended the run with a non-zero
\* status, no later download was started, and when it was a build artifact's
\* nothing was installed; nothing is installed before every build-artifact
\* download has returned.
C13_FetchingOrder ==
    /\ \/ IsPrefixOf(BuildDownloads, <<"cab", "esd", "ndp">>)
       \/ IsPrefixOf(BuildDownloads, <<"cab", "esd">>)
       \/ IsPrefixOf(BuildDownloads, <<"msu", "ndp">>)
    /\ IsPrefixOf(completed, downloads)
    /\ Len(downloads) <= Len(completed) + 1
    /\ \A i \in 1..Len(downloads) :
         /\ downloads[i] = "esd" => (i > 1 /\ completed[i - 1] = "cab")
         /\ (downloads[i] = "ndp" /\ downloads[1] = "cab")
            => (i = 3 /\ Prefix(completed, 2) = <<"cab", "esd">>)
    /\ (Len(completed) < Len(downloads) /\ pc # "in_download")
       => (/\ pc = "done"
           /\ exit_code > 0
           /\ exit_reason = "DownloadFailed"
           /\ downloads[Len(downloads)] \in BuildArtifacts => installs = <<>>)
    /\ (\E i \in 1..Len(installs) : installs[i][1] \in BuildArtifacts)
       => (/\ BuildDownloads # <<>>
           /\ IsPrefixOf(BuildDownloads, completed))

\* the CAB was downloaded, the ESD download raised, and the run has ended
\* with nothing installed and no NDP download
C13_Witness ==
    /\ downloads = <<"cab", "esd">>
    /\ completed = <<"cab">>
    /\ SelectedNdp # ""
    /\ pc = "done"
    /\ exit_reason = "DownloadFailed"
    /\ installs = <<>>

\* the installer returned a non-zero code for artifact a
InstallFailed(a) == \E i \in 1..Len(installs) : installs[i] = <<a, 1>>

\* C14 as stated: a non-zero installer code for the servicing-stack artifact
\* (CAB) has ended the run with a non-zero status, and a non-zero code for any
\* other artifact (ESD, MSU, NDP) does not end the run: the InstallFailure exit
\* is taken only after a failed CAB install.
C14_OnlyStackFatal ==
    /\ InstallFailed("cab") => (pc = "done" /\ exit_code > 0)
    /\ exit_reason = "InstallFailure" => InstallFailed("cab")

\* C14 as amended: a non-zero installer code for the CAB, the ESD or the MSU
\* has ended the run with status 1 (InstallFailure), that install being the
\* last one made; a non-zero code for the NDP companion or the enablement
\* package is only logged, the run going on to its normal end; the
\* InstallFailure exit is taken in no other case.
C14_InstallFailure ==
    /\ \A a \in {"cab", "esd", "msu"} :
         InstallFailed(a)
         => (/\ pc = "done"
             /\ exit_code = 1
             /\ exit_reason = "InstallFailure"
             /\ installs[Len(installs)] = <<a, 1>>)
    /\ exit_reason = "InstallFailure"
       => (installs # <<>> /\ installs[Len(installs)] \in
             {<<"cab", 1>>, <<"esd", 1>>, <<"msu", 1>>})
    /\ (InstallFailed("ndp") \/ InstallFailed("ep"))
       => (/\ exit_reason # "InstallFailure"
           /\ pc \in {"ep", "in_download", "ep_install", "done"}
           /\ pc = "done" => (exit_code = 0 \/ exit_reason = "DownloadFailed"))

\* the CAB installed, the ESD install returned a non-zero code, and the run
\* has ended with status 1 before the NDP companion was installed
C14_Witness ==
    /\ installs = <<<<"cab", 0>>, <<"esd", 1>>>>
    /\ SelectedNdp # ""
    /\ pc = "done"
    /\ exit_code = 1
    /\ exit_reason = "InstallFailure"

(* ------------------------------------------------- mirror selection claims *)
\* the candidates whose probe got a success response
Survivors == {i \in 1..Len(mirrors) : probe[i].ok}

\* C15 (one survivor). When exactly one candidate's probe succeeds and the
\* call has ended, it has returned that candidate, whichever of the two
\* functions ran and whatever data and time the successful probe measured.
C15_OneSurvivor ==
    (MirEnded /\ Cardinality(Survivors) = 1)
    => (/\ m_pc = "returned"
        /\ \E i \in Survivors : m_ret = mirrors[i])

\* C16 (no survivor). When every candidate's probe fails and the call has
\* ended, it has taken the logged "no mirror responded" exit, whichever of the
\* two functions ran.
C16_NoSurvivor ==
    (MirEnded /\ Survivors = {}) => m_pc = "exited"

\* the throughput score of candidate i
Score(i) ==
    IF probe[i].ok THEN Speed(probe[i].bytes, probe[i].elapsed) ELSE ZeroSpeed

\* C17 (fastest, stable on ties). When choose_fastest_mirror returns, the
\* candidate returned has a score no candidate exceeds and every candidate
\* before it in the list has a strictly lower score; and it does return
\* whenever some candidate has a non-zero score.
C17_FastestStable ==
    /\ (m_fn = "choose_fastest_mirror" /\ m_pc = "returned")
       => \E i \in 1..Len(mirrors) :
            /\ m_ret = mirrors[i]
            /\ \A j \in 1..Len(mirrors) : ~SpeedLess(Score(i), Score(j))
            /\ \A j \in 1..(i - 1) : SpeedLess(Score(j), Score(i))
    /\ (m_fn = "choose_fastest_mirror" /\ MirEnded
        /\ \E i \in 1..Len(mirrors) : ~SpeedIsZero(Score(i)))
       => m_pc = "returned"

\* the second and third candidates share the highest score, measured with
\* different data and time, and the second was returned
C17_Witness ==
    /\ m_fn = "choose_fastest_mirror"
    /\ m_pc = "returned"
    /\ Len(mirrors) = 3
    /\ probe[1] = [ok |-> TRUE, bytes |-> 1, elapsed |-> 2]
    /\ probe[2] = [ok |-> TRUE, bytes |-> 1, elapsed |-> 1]
    /\ probe[3] = [ok |-> TRUE, bytes |-> 2, elapsed |-> 2]
    /\ m_ret = mirrors[2]

(* ---------------------------------------------- version comparison claims *)
\* a list followed by n zeros
ZeroPadded(a, n) == a \o [i \in 1..n |-> 0]

\* the sign of the first difference of two lists of the same length
FirstDifferenceSign(x, y) ==
    LET d == {i \in 1..Len(x) : x[i] # y[i]} IN
    IF d = {} THEN 0
    ELSE LET k == CHOOSE i \in d : \A j \in d : i <= j
         IN  IF x[k] > y[k] THEN 1 ELSE -1

\* C18 (compare). compare_version_lists(a, b) returns a value of {-1, 0, 1},
\* the sign of the first position where a and b differ once the shorter is
\* padded with trailing zeros to the length of the longer, 0 when there is no
\* such position; compare([1],[1,0]) = 0, compare([26100,6130],[26100,1742])
\* = 1 and compare([22621,1],[26100,1]) = -1.
C18_Compare ==
    c_pc = "returned"
    => (/\ c_res \in {-1, 0, 1}
        /\ LET n == IF Len(c_a) >= Len(c_b) THEN Len(c_a) ELSE Len(c_b)
           IN  c_res = FirstDifferenceSign(ZeroPadded(c_a, n - Len(c_a)),
                                           ZeroPadded(c_b, n - Len(c_b)))
        /\ (c_a = <<1>> /\ c_b = <<1, 0>>) => c_res = 0
        /\ (c_a = <<26100, 6130>> /\ c_b = <<26100, 1742>>) => c_res = 1
        /\ (c_a = <<22621, 1>> /\ c_b = <<26100, 1>>) => c_res = -1)

\* compare([1], [1, 0]) has returned 0
C18_Witness ==
    /\ c_pc = "returned"
    /\ c_a = <<1>>
    /\ c_b = <<1, 0>>
    /\ c_res = 0

(* --------------------------------------------------- parseShort claims *)
\* the positions where a maximal digit run of str starts
RunStarts(str) ==
    {i \in 1..Len(str) : IsDigit(str[i]) /\ (i = 1 \/ ~IsDigit(str[i - 1]))}

\* the start of the k-th maximal digit run of str
KthRunStart(str, k) ==
    CHOOSE i \in RunStarts(str) :
        Cardinality({j \in RunStarts(str) : j < i}) = k - 1

\* the maximal digit run of str that starts at i
MaximalRunAt(str, i) ==
    LET e == CHOOSE j \in i..Len(str) :
                 /\ \A m \in i..j : IsDigit(str[m])
                 /\ (j = Len(str) \/ ~IsDigit(str[j + 1]))
    IN  SubSeq(str, i, e)

\* C19 (parseShort keeps the first two runs). The integer sequence returned
\* holds exactly the first min(2, n) of the n maximal digit runs of the input,
\* in order, as integers, every later run being discarded; and for an input
\* with at least two runs, comparing the sequence with itself gives 0.
C19_FirstTwoRuns ==
    p_pc = "returned"
    => LET n == Cardinality(RunStarts(full_ver)) IN
       /\ Len(short_parts) = (IF n < 2 THEN n ELSE 2)
       /\ \A k \in 1..Len(short_parts) :
            short_parts[k] = IntOf(MaximalRunAt(full_ver, KthRunStart(full_ver, k)))
       /\ n >= 2 => CompareVersionLists(short_parts, short_parts) = 0

\* "1.0-1" has three runs and the call returned [1, 0]
C19_Witness ==
    /\ p_pc = "returned"
    /\ full_ver = <<"1", ".", "0", "-", "1">>
    /\ Cardinality(RunStarts(full_ver)) = 3
    /\ short_parts = <<1, 0>>

\* C20 (parseShort on no digits). For an input with no digit run the call
\* fails with ParseError: it does not return a value.
C20_NoDigitsFails ==
    (RunStarts(full_ver) = {} /\ p_pc # "call") => p_pc = "raised"

(* ------------------------------------------------ verification-error claim *)
\* a step of download_file in which the verification of the existing file
\* raised (the sidecar could not be fetched or parsed, or the file not hashed)
C25_SwallowStep ==
    (dl_pc = "loop" /\ disk.exists /\ swallowed' = swallowed + 1)
    => (/\ dl_pc' = "get"
        /\ max_retries' = max_retries
        /\ declined' = declined
        /\ gets' = gets
        /\ disk' = disk)

\* C25 (verification errors are swallowed). A step in which verifying the
\* existing local file raises goes straight on to the transfer: the call does
\* not end, the retry prompt is not reached, max_retries is not decremented.
\* And a verification that cannot fetch or parse the sidecar, or cannot hash
\* the file, always is such a step.
C25_VerifyErrorSwallowed ==
    /\ [][C25_SwallowStep]_vars
    /\ [][(dl_pc = "loop" /\ disk.exists /\ sidecar.kind # "text")
          => (swallowed' = swallowed + 1 /\ dl_pc' = "get")]_vars

\* a blank sidecar made the verification raise, and the call returned after
\* one GET with its three retries intact
C25_Witness ==
    /\ sidecar.kind = "blank"
    /\ swallowed = 1
    /\ gets = 1
    /\ max_retries = MaxRetries
    /\ ~declined
    /\ dl_pc = "returned"

(* ------------------------------------------------- missing-baseline claim *)
\* the baseline rule applies, the server lists builds of the local branch but
\* not 26100.1742, and the resolver is past the selection
BaselineAbsent ==
    /\ build = <<>>
    /\ folders # <<>>
    /\ local_parts[1] = 26100
    /\ local_parts[2] < 1742
    /\ SameBranchOf(folders, local_parts[1]) # <<>>
    /\ ~InSeq(<<26100, 1742>>, folders)
    /\ pc \notin {"branch_filter", "probe", "select"}

C27_DryRun ==
    dry_run => (downloads = <<>> /\ installs = <<>>)

(* ------------------------------------------------------ selection invariant *)
\* C28 (selection invariant). Whichever rule selected it (override, baseline
\* forcing or latest), the selected build is in the completeness-filtered
\* same-branch set: its major is the local major, it is a folder of the
\* server, and the probe of its non_complete marker answered false; and a
\* build artifact is downloaded or installed only for such a selected build.
C28_SelectionInvariant ==
    /\ Selected
       => (/\ InSeq(best, complete_builds)
           /\ same_branch = complete_builds
           /\ InSeq(best, folders)
           /\ best[1] = local_parts[1]
           /\ \E i \in 1..Len(probed) : probed[i] = best /\ ~markers[i])
    /\ (\/ \E i \in 1..Len(downloads) : downloads[i] \in BuildArtifacts
        \/ \E i \in 1..Len(installs) : installs[i][1] \in BuildArtifacts)
       => Selected

\* of two builds of the local branch the later carries the marker; the
\* earlier one, asked for by override, was selected and an artifact of it
\* downloaded
C28_Witness ==
    /\ build = <<26100, 1742>>
    /\ local_parts = <<26100, 2000>>
    /\ probed = <<<<26100, 1742>>, <<26100, 6130>>>>
    /\ markers = <<FALSE, TRUE>>
    /\ best = <<26100, 1742>>
    /\ downloads # <<>>
    /\ downloads[1] \in BuildArtifacts

(* ---------------------------------------------------- operator gating claim *)
\* what the claim says of downloads, declines and the install order
GatedDownloadsAndOrder ==
    /\ (\E i \in 1..Len(downloads) : downloads[i] \in BuildArtifacts)
       => <<"download", TRUE>> \in prompts
    /\ <<"download", FALSE>> \in prompts
       => (pc = "done" /\ exit_code = 0 /\ downloads = <<>> /\ installs = <<>>)
    /\ <<"install", FALSE>> \in prompts
       => (pc = "done" /\ exit_code = 0 /\ installs = <<>>)
    /\ \A i \in 1..Len(installs) :
         /\ installs[i][1] = "esd"
            => (i > 1 /\ installs[i - 1] = <<"cab", 0>>)
         /\ (installs[i][1] = "ndp" /\ installs[1][1] = "cab")
            => (i > 2 /\ installs[i - 1] = <<"esd", 0>>)

\* C29 as stated: no build artifact is downloaded without a yes to the
\* download confirmation, no package at all is installed without a yes to the
\* install-now prompt, a decline at either has ended the run with status 0,
\* the ESD is installed only after the CAB install returned 0 and the NDP
\* companion only after the ESD install returned 0.
C29_EveryInstallGated ==
    /\ GatedDownloadsAndOrder
    /\ installs # <<>> => <<"install", TRUE>> \in prompts

\* C29 as amended: as stated for the packages of the build (CAB, ESD, MSU,
\* NDP); the enablement package is installed without the install-now prompt,
\* but only after a yes to its own offer.
C29_OperatorGating ==
    /\ GatedDownloadsAndOrder
    /\ (\E i \in 1..Len(installs) : installs[i][1] \in BuildArtifacts)
       => <<"install", TRUE>> \in prompts
    /\ (\E i \in 1..Len(installs) : installs[i][1] = "ep")
       => <<"ep", TRUE>> \in prompts

\* both confirmations were answered yes and the three packages were installed
\* in order, the first two with exit code 0
C29_Witness ==
    /\ <<"download", TRUE>> \in prompts
    /\ <<"install", TRUE>> \in prompts
    /\ Len(installs) >= 3
    /\ installs[1] = <<"cab", 0>>
    /\ installs[2] = <<"esd", 0>>
    /\ installs[3][1] = "ndp"

(* ------------------------------------------------------ existence-probe claim *)

\* the status is one of the 2xx success statuses
IsSuccessStatus(o) == o.kind = "response" /\ o.status >= 200 /\ o.status < 300

\* C24 as stated (remote_file_exists never raises and answers by success).
\* Every call returns a boolean without raising: False on a transport error
\* and on a non-success status, True on a success status.
C24_TrueOnSuccess ==
    \A i \in 1..Len(e_answers) :
        /\ ~e_answers[i].raised
        /\ e_answers[i].value \in BOOLEAN
        /\ e_answers[i].value = IsSuccessStatus(e_outcomes[i])

\* C24 amended (remote_file_exists never raises and answers True on 200
\* only). Every call returns a boolean without raising: True exactly when the
\* HEAD request was answered with status 200, False on a transport error and
\* on every other status, the other 2xx statuses and redirects included.
C24_TrueOn200Only ==
    \A i \in 1..Len(e_answers) :
        /\ ~e_answers[i].raised
        /\ e_answers[i].value \in BOOLEAN
        /\ e_answers[i].value =
              (e_outcomes[i].kind = "response" /\ e_outcomes[i].status = 200)

\* three calls made: a transport error, a 204 and a 200
C24_Witness ==
    /\ Len(e_answers) = 3
    /\ e_outcomes[1].kind = "error"
    /\ e_outcomes[2] = [kind |-> "response", status |-> 204]
    /\ e_outcomes[3] = [kind |-> "response", status |-> 200]
    /\ ~e_answers[1].value
    /\ ~e_answers[2].value
    /\ e_answers[3].value

(* ------------------------------------------------------- build-folder claims *)

\* the shortName the stated rule gives an anchor, as a set: empty when the
\* anchor has fewer than two digit runs
C21_RuleNames(a) ==
    LET seg == LastPiece(RStrip(a.href, "/"), "/")
        runs == IF FindAllFrom(seg, 1) # <<>> THEN FindAllFrom(seg, 1)
                ELSE FindAllFrom(a.text, 1)
    IN  IF Len(runs) < 2 THEN {}
        ELSE IF Len(runs) >= 4 /\ runs[1] = <<"1", "0">> /\ runs[2] = <<"0">>
        THEN {JoinDot(<<IntOf(runs[3]), IntOf(runs[4])>>)}
        ELSE {JoinDot(<<IntOf(runs[1]), IntOf(runs[2])>>)}

\* the (major, minor) pair a shortName stands for
C21_Pair(name) == LET runs == FindAllFrom(name, 1) IN <<IntOf(runs[1]), IntOf(runs[2])>>

\* strictly ascending by (major, minor), hence free of duplicates
C21_Ascending(list) ==
    \A j \in 1..Len(list), k \in 1..Len(list) :
        j < k =>
            \/ C21_Pair(list[j])[1] < C21_Pair(list[k])[1]
            \/ /\ C21_Pair(list[j])[1] = C21_Pair(list[k])[1]
               /\ C21_Pair(list[j])[2] < C21_Pair(list[k])[2]

\* the page of the example: ../, 5.0/, 7.2/, a/b/10.0/0.1/
C21_ExamplePage(page) ==
    /\ Len(page) = 4
    /\ page[1].href = <<".", ".", "/">>
    /\ page[2].href = <<"5", ".", "0", "/">>
    /\ page[3].href = <<"7", ".", "2", "/">>
    /\ page[4].href = <<"a", "/", "b", "/", "1", "0", ".", "0", "/", "0", ".", "1", "/">>

\* C21 as stated (build folders by the digit-run rule alone). The list
\* returned is strictly ascending by (major, minor) and holds exactly the
\* shortNames the digit-run rule gives the anchors of the page, every anchor
\* taking part; the page ../, 5.0/, 7.2/, a/b/10.0/0.1/ gives [0.1, 5.0, 7.2].
C21_FoldersByRuleAlone ==
    i_pc = "returned" =>
        /\ C21_Ascending(i_folders)
        /\ {i_folders[k] : k \in 1..Len(i_folders)}
              = UNION {C21_RuleNames(i_anchors[k]) : k \in 1..Len(i_anchors)}
        /\ C21_ExamplePage(i_anchors) =>
              i_folders = << <<"0", ".", "1">>, <<"5", ".", "0">>, <<"7", ".", "2">> >>

\* C21 amended (build folders by the digit-run rule, parent and root links
\* aside). The list returned has no duplicates, is ascending by (major, minor)
\* and holds exactly the shortNames the digit-run rule gives the anchors whose
\* href is neither ../ nor /: runs of the href's final path segment, or of the
\* link text when that segment has no digit; fewer than two runs skip the
\* anchor; runs three and four when there are four or more and the first two
\* are "10", "0", runs one and two otherwise. The page ../, 5.0/, 7.2/,
\* a/b/10.0/0.1/ gives [0.1, 5.0, 7.2].
C21_FoldersByRule ==
    i_pc = "returned" =>
        /\ C21_Ascending(i_folders)
        /\ {i_folders[k] : k \in 1..Len(i_folders)}
              = UNION {C21_RuleNames(i_anchors[k]) :
                         k \in {j \in 1..Len(i_anchors) :
                                   i_anchors[j].href \notin {<<".", ".", "/">>, <<"/">>}}}
        /\ C21_ExamplePage(i_anchors) =>
              i_folders = << <<"0", ".", "1">>, <<"5", ".", "0">>, <<"7", ".", "2">> >>

\* the page of the example has been parsed
C21_Witness ==
    /\ i_pc = "returned"
    /\ C21_ExamplePage(i_anchors)
    /\ i_folders = << <<"0", ".", "1">>, <<"5", ".", "0">>, <<"7", ".", "2">> >>

(* ------------------------------------------------------------ file-list claim *)

\* the entry each href of the pages stands for: its final path segment,
\* percent-decoded; none for an href ending with the separator
C22_Entry(h) ==
    IF h = <<"a", ".", "c", "a", "b">> THEN {<<"a", ".", "c", "a", "b">>}
    ELSE IF h = <<"A", ".", "C", "A", "B">> THEN {<<"A", ".", "C", "A", "B">>}
    ELSE IF h = <<"d", "/", "a", ".", "c", "a", "b">> THEN {<<"a", ".", "c", "a", "b">>}
    ELSE IF h = <<"a", "%", "2", "E", "c", "a", "b">> THEN {<<"a", ".", "c", "a", "b">>}
    ELSE IF h = <<"b", "%", "2", "F">> THEN {<<"b", "/">>}
    ELSE IF h = <<"%", "4", "1", ".", "C", "A", "B">> THEN {<<"A", ".", "C", "A", "B">>}
    ELSE {}

\* C22 (file list: decoded final segments, sorted, no duplicates, case kept).
\* The list returned is strictly ascending by code point, hence sorted and
\* free of duplicates; it holds exactly the percent-decoded final path segment
\* of every href that does not end with "/", an href ending with "/" adding
\* nothing; and a.cab and A.CAB, when both are listed, are two entries.
C22_FilesSortedDecoded ==
    f_pc = "returned" =>
        /\ \A j \in 1..Len(f_files), k \in 1..Len(f_files) :
              j < k => StrLess(f_files[j], f_files[k])
        /\ {f_files[k] : k \in 1..Len(f_files)}
              = UNION {C22_Entry(f_hrefs[k]) : k \in 1..Len(f_hrefs)}
        /\ \A k \in 1..Len(f_hrefs) :
              EndsWith(f_hrefs[k], "/") => C22_Entry(f_hrefs[k]) = {}
        /\ (\E j \in 1..Len(f_hrefs), k \in 1..Len(f_hrefs) :
                /\ f_hrefs[j] = <<"a", ".", "c", "a", "b">>
                /\ f_hrefs[k] = <<"A", ".", "C", "A", "B">>)
           => \E j \in 1..Len(f_files), k \in 1..Len(f_files) :
                /\ j # k
                /\ f_files[j] = <<"a", ".", "c", "a", "b">>
                /\ f_files[k] = <<"A", ".", "C", "A", "B">>

\* the page a.cab, b/, A.CAB has been parsed into [A.CAB, a.cab]
C22_Witness ==
    /\ f_pc = "returned"
    /\ f_hrefs = << <<"a", ".", "c", "a", "b">>, <<"b", "/">>, <<"A", ".", "C", "A", "B">> >>
    /\ f_files = << <<"A", ".", "C", "A", "B">>, <<"a", ".", "c", "a", "b">> >>

(* --------------------------------------------------------- empty-result claim *)

\* where main is once the build folders have been parsed and found non-empty
C23_PastIndex ==
    pc \in {"branch_filter", "probe", "select", "compare", "confirm", "list_files",
            "dl_msu", "dl_msu_ndp", "msu_confirm", "inst_msu", "inst_msu_ndp",
            "dl_cab", "dl_esd", "dl_ndp", "cab_confirm", "inst_cab", "inst_esd",
            "inst_ndp"}

\* where main is once the files of the target folder have been listed
C23_PastListing ==
    pc \in {"dl_msu", "dl_msu_ndp", "msu_confirm", "inst_msu", "inst_msu_ndp",
            "dl_cab", "dl_esd", "dl_ndp", "cab_confirm", "inst_cab", "inst_esd",
            "inst_ndp"}

\* a page without anchors parses to an empty list, and main never goes on
\* with an empty list
C23_EmptyIsFailure ==
    /\ ParseIndexForFolders(<<>>) = <<>>
    /\ ParseFiles(<<>>) = <<>>
    /\ C23_PastIndex => folders # <<>>
    /\ C23_PastListing => files # <<>>
    /\ best # <<>> => folders # <<>>
    /\ exit_reason = "IncompleteArtifactSet" => files # <<>>
    /\ exit_reason \in {"NoBuildFolders", "NoFiles"} => pc = "done" /\ exit_code # 0

\* C23 as stated (an empty list ends the run before any selection). A page
\* without anchors gives both parsers an empty list, no error raised; an empty
\* build-folder list and an empty file list each end the run with a non-zero
\* status, no build selected by then and nothing downloaded.
C23_EmptyEndsBeforeSelection ==
    /\ C23_EmptyIsFailure
    /\ exit_reason \in {"NoBuildFolders", "NoFiles"} =>
          /\ best = <<>>
          /\ downloads = <<>>
          /\ installs = <<>>

\* C23 amended (an empty list ends the run before any download). A page
\* without anchors gives both parsers an empty list, no error raised; an empty
\* build-folder list ends the run with a non-zero status before any build is
\* selected, and an empty file list, which is the listing of the build already
\* selected, ends it with a non-zero status before anything is downloaded or
\* installed.
C23_EmptyEndsBeforeDownload ==
    /\ C23_EmptyIsFailure
    /\ exit_reason = "NoBuildFolders" =>
          /\ best = <<>>
          /\ downloads = <<>>
          /\ installs = <<>>
    /\ exit_reason = "NoFiles" =>
          /\ best # <<>>
          /\ downloads = <<>>
          /\ installs = <<>>

\* the folder of the selected build lists no file
C23_Witness ==
    /\ pc = "done"
    /\ exit_reason = "NoFiles"
    /\ exit_code = 1
    /\ files = <<>>
    /\ best # <<>>
    /\ downloads = <<>>

(* --------------------------------------------------------------- spinner claim *)

\* C30 (the spinner leaves the results alone and has ended by the final
\* line). The results list only ever holds what the probing thread appended,
\* and once choose_fastest_mirror has written its final status line and goes
\* on to use the results, the spinner thread has ended: it takes no further
\* step and writes nothing more to the console.
C30_SpinnerEndedAtFinalLine ==
    /\ t_results = SubSeq(t_outcomes, 1, Len(t_results))
    /\ PastFinalLine => (t_spin = "ended" /\ t_console = "final")

====
